---- MODULE Spec2Model ----
(***************************************************************************)
(* A model of coverbee's instrumentation engine (instrumentation.go):      *)
(* ProgramBlocks (the CFG builder), InstrumentAndLoadCollection (the       *)
(* trial-load loop, the per-function prologue, the per-block counter       *)
(* update, the symbol migration, the coverage map) and an abstract machine *)
(* that executes the instructions the engine inserts.                      *)
(***************************************************************************)
EXTENDS Integers, Sequences, FiniteSets, TLC

(***************************************************************************)
(* Instructions.                                                           *)
(*   op   : the operation.  Original instructions are abstracted to their  *)
(*          class: "alu" (any non-jump), "lddw" (a double-word immediate   *)
(*          load, two raw slots), "ja", "jcond", "call" (helper call),     *)
(*          "callfn" (bpf-to-bpf call), "exit".  Inserted instructions     *)
(*          keep their full meaning: "mov_imm", "mov_reg", "add_imm",      *)
(*          "stx_dw", "ldx_dw", "st_dw", "ldx_h", "stx_h", "ld_map_ptr",   *)
(*          "call", "jne_imm", "exit".                                     *)
(*   sym  : the symbol of the instruction, ref : its reference.            *)
(*          A symbol is a pair: <<"", 0>> is the empty string, <<"fn", n>> *)
(*          a function name, <<"j", n>> the label "j-n", <<"map", 0>> the  *)
(*          map name coverbee_covermap.                                    *)
(***************************************************************************)
NoSym == <<"", 0>>
FnSym(n) == <<"fn", n>>
JumpLabel(n) == <<"j", n>>
CoverMapRef == <<"map", 0>>

Ins(op, dst, src, off, imm) ==
  [op |-> op, dst |-> dst, src |-> src, off |-> off, imm |-> imm,
   sym |-> NoSym, ref |-> NoSym]

WithSymbol(ins, s) == [ins EXCEPT !.sym = s]
WithReference(ins, r) == [ins EXCEPT !.ref = r]

\* asm.OpCode.JumpOp(): the jump operation of an instruction, "none" for
\* InvalidJumpOp (the instruction is no jump).
JumpOp(ins) ==
  CASE ins.op = "ja" -> "ja"
    [] ins.op \in {"jcond", "jne_imm"} -> "jcond"
    [] ins.op \in {"call", "callfn"} -> "call"
    [] ins.op = "exit" -> "exit"
    [] OTHER -> "none"

IsDWordLoad(ins) == ins.op \in {"lddw", "ld_map_ptr"}
IsFunctionCall(ins) == ins.op = "callfn"

\* The registers.
R0 == 0
R1 == 1
R2 == 2
R5 == 5
R8 == 8
R9 == 9
R10 == 10
NoReg == 255

\* Conversions to the fixed-width integer types of the instruction fields.
Int16(x) == ((x + 32768) % 65536) - 32768
UInt16(x) == x % 65536

(***************************************************************************)
(* ProgramBlocks: the CFG builder.                                         *)
(***************************************************************************)
Nil == -1

\* The raw offset of the i-th instruction (i from 1): prog.Iterate() counts a
\* double-word immediate load as two raw slots.
RECURSIVE RawOffset(_, _)
RawOffset(prog, i) ==
  IF i = 1 THEN 0
  ELSE RawOffset(prog, i - 1) + (IF IsDWordLoad(prog[i - 1]) THEN 2 ELSE 1)

\* offToInst: the position of the instruction at a raw offset, 0 when the map
\* has no entry for the offset (a nil pointer in the code).
OffToInst(prog, off) ==
  IF \E i \in 1..Len(prog) : RawOffset(prog, i) = off
  THEN CHOOSE i \in 1..Len(prog) : RawOffset(prog, i) = off
  ELSE 0

\* The target of a jump with offset o at raw offset p:
\* iter.Offset + RawInstructionOffset(inst.Offset+1), the sum inst.Offset+1
\* being a 16-bit one.  (A negative result stands for the 64-bit unsigned
\* number the conversion of a negative sum yields: no instruction is there.)
JumpTarget(p, o) == p + Int16(o + 1)

\* The target of the jump at position i.
TargetOff(prog, i) == JumpTarget(RawOffset(prog, i), prog[i].off)

IsLabelledJump(ins) == JumpOp(ins) \notin {"none", "call", "exit"}

\* Every labelled jump has a target in offToInst (otherwise the labelling loop
\* dereferences a nil pointer).
JumpTargetsValid(prog) ==
  \A i \in 1..Len(prog) :
    IsLabelledJump(prog[i]) => OffToInst(prog, TargetOff(prog, i)) # 0

\* inst.Offset = -1; *inst = inst.WithReference(label)
Relabel(inst, label) == WithReference([inst EXCEPT !.off = -1], label)

\* The labelling loop, from position i on: the target of every jump other than
\* Call and Exit gets the symbol j-<target>, the jump gets offset -1 and the
\* label as its reference.
RECURSIVE LabelFrom(_, _)
LabelFrom(prog, i) ==
  IF i > Len(prog) THEN prog
  ELSE IF ~IsLabelledJump(prog[i]) THEN LabelFrom(prog, i + 1)
  ELSE LET targetOff == TargetOff(prog, i)
           label == JumpLabel(targetOff)
           target == OffToInst(prog, targetOff)
           p1 == [prog EXCEPT ![target] = WithSymbol(@, label)]
           p2 == [p1 EXCEPT ![i] = Relabel(@, label)]
       IN LabelFrom(p2, i + 1)

LabelJumps(prog) == LabelFrom(prog, 1)

\* &ProgBlock{Index: n}
NewBlock(n) == [Index |-> n, Block |-> <<>>, NoBranch |-> Nil, Branch |-> Nil]

\* A symbol-bearing instruction starts a new block when the block in progress
\* is not empty.
StartsBlockNever(inst, curBlock) == FALSE
StartsBlock(inst, curBlock) == inst.sym # NoSym /\ Len(curBlock.Block) > 0

\* The block-building loop, from position i on.  A successor pointer is modelled
\* by the Index of the block it points to.  The block in progress when the
\* instructions run out is not appended.
RECURSIVE BuildFrom(_, _, _, _)
BuildFrom(prog, i, blocks, curBlock) ==
  IF i > Len(prog) THEN blocks
  ELSE LET inst == prog[i]
           split == StartsBlock(inst, curBlock)
           blocks1 == IF split
                      THEN Append(blocks, [curBlock EXCEPT !.NoBranch = curBlock.Index + 1])
                      ELSE blocks
           cur1 == IF split THEN NewBlock(curBlock.Index + 1) ELSE curBlock
           cur2 == [cur1 EXCEPT !.Block = Append(@, inst)]
           op == JumpOp(inst)
           cur3 == IF op # "exit" THEN [cur2 EXCEPT !.NoBranch = cur2.Index + 1] ELSE cur2
       IN IF op = "none" THEN BuildFrom(prog, i + 1, blocks1, cur2)
          ELSE BuildFrom(prog, i + 1, Append(blocks1, cur3), NewBlock(cur2.Index + 1))

\* symToBlock[sym]: the Index of the last block of the list whose first
\* instruction bears sym, Nil when there is none (the empty symbol is never a key).
SymToBlock(blocks, sym) ==
  LET hits == {k \in 1..Len(blocks) : blocks[k].Block[1].sym = sym}
  IN IF sym = NoSym \/ hits = {} THEN Nil
     ELSE blocks[CHOOSE k \in hits : \A m \in hits : m <= k].Index

\* The linking loop: the branch successor of every block that ends in a jump
\* other than Exit.
LinkBlocks(blocks) ==
  [k \in 1..Len(blocks) |->
     LET lastInst == blocks[k].Block[Len(blocks[k].Block)]
     IN IF JumpOp(lastInst) \in {"none", "exit"} THEN blocks[k]
        ELSE [blocks[k] EXCEPT !.Branch = SymToBlock(blocks, lastInst.ref)]]

ProgramBlocks(prog) == LinkBlocks(BuildFrom(LabelJumps(prog), 1, <<>>, NewBlock(0)))

(***************************************************************************)
(* The instructions InstrumentAndLoadCollection inserts.                   *)
(***************************************************************************)
MovImm(dst, imm) == Ins("mov_imm", dst, 0, 0, imm)
MovReg(dst, src) == Ins("mov_reg", dst, src, 0, 0)
AddImm(dst, imm) == Ins("add_imm", dst, 0, 0, imm)
\* asm.StoreMem(dst, off, src, size): *(size *)(dst + off) = src
StoreMemDW(dst, off, src) == Ins("stx_dw", dst, src, off, 0)
StoreMemH(dst, off, src) == Ins("stx_h", dst, src, off, 0)
\* asm.LoadMem(dst, src, off, size): dst = *(size *)(src + off)
LoadMemDW(dst, src, off) == Ins("ldx_dw", dst, src, off, 0)
LoadMemH(dst, src, off) == Ins("ldx_h", dst, src, off, 0)
\* asm.StoreImm(dst, off, imm, size): *(size *)(dst + off) = imm
StoreImmDW(dst, off, imm) == Ins("st_dw", dst, 0, off, imm)
LoadMapPtr(dst) == WithReference(Ins("ld_map_ptr", dst, 0, 0, 0), CoverMapRef)
\* The helper number of bpf_map_lookup_elem; an original helper call is
\* abstracted to helper number 0.
FnMapLookupElem == 1
CallHelper(fn) == Ins("call", 0, 0, 0, fn)
JNEImm(dst, imm, off) == Ins("jne_imm", dst, 0, off, imm)
Return == Ins("exit", 0, 0, 0, 0)

\* The three reserved stack slots of a program.
CoverMapFPOff(progMaxFPOff) == progMaxFPOff + 8
RegSave1FPOff(progMaxFPOff) == progMaxFPOff + 16
RegSave2FPOff(progMaxFPOff) == progMaxFPOff + 24

\* -int16(off): the offset field of a frame-pointer relative access.
NegOff(off) == Int16(0 - Int16(off))

\* The registers lo..hi as a sequence (empty when lo > hi): the range of one of
\* the code's loops over registers.
RegRange(lo, hi) == [k \in 1..(IF hi >= lo THEN hi - lo + 1 ELSE 0) |-> lo + k - 1]

\* The prologue of a function entry whose BTF prototype has params parameters.
Prologue(params, progMaxFPOff) ==
  LET regCnt == IF params = 5 THEN 4 ELSE params
      zeroed == RegRange(R1 + params, R9)
      parked == RegRange(R1, R1 + regCnt - 1)
  IN <<MovImm(R0, 0)>>
     \o [k \in DOMAIN zeroed |-> MovImm(zeroed[k], 0)]
     \o (IF params = 5
         THEN <<StoreMemDW(R10, NegOff(RegSave2FPOff(progMaxFPOff)), R5)>>
         ELSE <<>>)
     \o [k \in DOMAIN parked |-> MovReg(parked[k] + 5, parked[k])]
     \o <<LoadMapPtr(R1),
          MovReg(R2, R10),
          AddImm(R2, 0 - RegSave1FPOff(progMaxFPOff)),
          StoreImmDW(R2, 0, 0),
          CallHelper(FnMapLookupElem),
          JNEImm(R0, 0, 2),
          MovImm(R0, -1),
          Return,
          StoreMemDW(R10, NegOff(CoverMapFPOff(progMaxFPOff)), R0)>>
     \o [k \in DOMAIN parked |-> MovReg(parked[k], parked[k] + 5)]
     \o (IF params = 5
         THEN <<LoadMemDW(R5, R10, NegOff(RegSave2FPOff(progMaxFPOff)))>>
         ELSE <<>>)

\* The search for two registers the merged state does not list, from register
\* i on: <<unusedR1, unusedR2>>, NoReg for one that was not found.
RECURSIVE FindUnused(_, _, _, _)
FindUnused(i, usedRegs, unusedR1, unusedR2) ==
  IF i > R9 THEN <<unusedR1, unusedR2>>
  ELSE IF i \in usedRegs THEN FindUnused(i + 1, usedRegs, unusedR1, unusedR2)
  ELSE IF unusedR1 = NoReg THEN FindUnused(i + 1, usedRegs \cup {i}, i, unusedR2)
  ELSE IF unusedR2 = NoReg THEN <<unusedR1, i>>
  ELSE FindUnused(i + 1, usedRegs, unusedR1, unusedR2)

MapValR(usedRegs) ==
  LET u == FindUnused(R0, usedRegs, NoReg, NoReg)
  IN IF u[1] = NoReg THEN R8 ELSE u[1]

CounterRNine(usedRegs) ==
  LET u == FindUnused(R0, usedRegs, NoReg, NoReg)
  IN IF u[2] # NoReg THEN u[2] ELSE R9
CounterR(usedRegs) ==
  LET u == FindUnused(R0, usedRegs, NoReg, NoReg)
  IN IF u[2] # NoReg THEN u[2]
     ELSE IF MapValR(usedRegs) = R9 THEN R8 ELSE R9

\* int16(blockID)*2: the offset field of the counter load and store.
CounterOffUnscaled(blockID) == Int16(blockID)
CounterOff(blockID) == Int16(Int16(blockID) * 2)

\* The counter update of a block: usedRegs are the registers of the merged
\* state at the block's first instruction.
CounterUpdateStale(usedRegs, blockID, progMaxFPOff) ==
  <<LoadMemDW(MapValR(usedRegs), R10, NegOff(CoverMapFPOff(progMaxFPOff))),
    LoadMemH(CounterR(usedRegs), MapValR(usedRegs), CounterOff(blockID)),
    StoreMemH(MapValR(usedRegs), CounterOff(blockID), CounterR(usedRegs))>>
CounterUpdateByTwo(usedRegs, blockID, progMaxFPOff) ==
  <<LoadMemDW(MapValR(usedRegs), R10, NegOff(CoverMapFPOff(progMaxFPOff))),
    LoadMemH(CounterR(usedRegs), MapValR(usedRegs), CounterOff(blockID)),
    AddImm(CounterR(usedRegs), 2),
    StoreMemH(MapValR(usedRegs), CounterOff(blockID), CounterR(usedRegs))>>
CounterUpdate(usedRegs, blockID, progMaxFPOff) ==
  LET u == FindUnused(R0, usedRegs, NoReg, NoReg)
      mapValR == MapValR(usedRegs)
      counterR == CounterR(usedRegs)
  IN (IF u[1] = NoReg
      THEN <<StoreMemDW(R10, NegOff(RegSave1FPOff(progMaxFPOff)), mapValR)>>
      ELSE <<>>)
     \o (IF u[2] = NoReg
         THEN <<StoreMemDW(R10, NegOff(RegSave2FPOff(progMaxFPOff)), counterR)>>
         ELSE <<>>)
     \o <<LoadMemDW(mapValR, R10, NegOff(CoverMapFPOff(progMaxFPOff))),
          LoadMemH(counterR, mapValR, CounterOff(blockID)),
          AddImm(counterR, 1),
          StoreMemH(mapValR, CounterOff(blockID), counterR)>>
     \o (IF u[1] = NoReg
         THEN <<LoadMemDW(mapValR, R10, NegOff(RegSave1FPOff(progMaxFPOff)))>>
         ELSE <<>>)
     \o (IF u[2] = NoReg
         THEN <<LoadMemDW(counterR, R10, NegOff(RegSave2FPOff(progMaxFPOff)))>>
         ELSE <<>>)

\* The code inserted before a block: the prologue when the block is a function
\* entry (params is the parameter count, Nil for a block that is no entry),
\* then the counter update.
InsertedPrologueAlways(params, usedRegs, blockID, progMaxFPOff) ==
  Prologue(IF params = Nil THEN 0 ELSE params, progMaxFPOff)
  \o CounterUpdate(usedRegs, blockID, progMaxFPOff)
Inserted(params, usedRegs, blockID, progMaxFPOff) ==
  (IF params # Nil THEN Prologue(params, progMaxFPOff) ELSE <<>>)
  \o CounterUpdate(usedRegs, blockID, progMaxFPOff)

\* Symbol migration: the block's symbol goes to the first inserted instruction,
\* the block's first instruction loses it.
MoveSymbolCopy(instr, block) ==
  <<WithSymbol(instr[1], block[1].sym)>> \o Tail(instr) \o block
MoveSymbol(instr, block) ==
  <<WithSymbol(instr[1], block[1].sym)>> \o Tail(instr)
  \o <<WithSymbol(block[1], NoSym)>> \o Tail(block)

\* The instructions one block contributes to newProgram.
InstrumentBlock(block, params, usedRegs, blockID, progMaxFPOff) ==
  MoveSymbol(Inserted(params, usedRegs, blockID, progMaxFPOff), block)

\* The number of raw slots of a block: what the block adds to instn.
RECURSIVE RawLen(_)
RawLen(block) ==
  IF block = <<>> THEN 0
  ELSE (IF IsDWordLoad(block[1]) THEN 2 ELSE 1) + RawLen(Tail(block))

(***************************************************************************)
(* The programs the model is run on.  A program is a sequence of at most   *)
(* MaxLen original instructions; its first instruction bears the program's *)
(* name, FnSym(0); when the program has a sub-program, FnSym(1), that      *)
(* function starts at position subAt.  The programs are the ones the       *)
(* kernel accepts in the trial load: every jump stays inside its function  *)
(* and lands on an instruction, every function ends in an exit or an       *)
(* unconditional jump, a sub-program is called from the main function and  *)
(* calls no function itself.                                               *)
(***************************************************************************)
MaxLen == 4
JumpOffs == {-3, -2, 0, 1}

MainName == FnSym(0)
SubName == FnSym(1)

Alu == Ins("alu", 0, 0, 0, 0)
LdDW == Ins("lddw", 0, 0, 0, 0)
Ja(off) == Ins("ja", 0, 0, off, 0)
JCond(off) == Ins("jcond", 0, 0, off, 0)
CallFn(sym) == WithReference(Ins("callfn", 0, 1, 0, -1), sym)

Alphabet ==
  {Alu, LdDW, Return, CallHelper(0), CallFn(SubName)}
  \cup {Ja(o) : o \in JumpOffs} \cup {JCond(o) : o \in JumpOffs}

\* The function (0 main, 1 sub-program) position i belongs to.
FuncOf(subAt, i) == IF subAt > 0 /\ i >= subAt THEN 1 ELSE 0

Accepted(p, subAt) ==
  /\ p[Len(p)].op \in {"exit", "ja"}
  /\ subAt > 0 => /\ p[subAt - 1].op \in {"exit", "ja"}
                  /\ \E i \in 1..(subAt - 1) : IsFunctionCall(p[i])
  /\ \A i \in 1..Len(p) : IsFunctionCall(p[i]) => subAt > 0 /\ i < subAt
  /\ JumpTargetsValid(p)
  /\ \A i \in 1..Len(p) :
       IsLabelledJump(p[i]) =>
         FuncOf(subAt, OffToInst(p, TargetOff(p, i))) = FuncOf(subAt, i)

\* The instructions of a program: the bodies with the function names put on.
Named(p, subAt) ==
  [i \in 1..Len(p) |->
     IF i = 1 THEN WithSymbol(p[i], MainName)
     ELSE IF i = subAt THEN WithSymbol(p[i], SubName)
     ELSE p[i]]

\* The accepted programs of n instructions over an alphabet of instructions.
ProgramsOver(alphabet, n) ==
  {Named(x[1], x[2]) :
     x \in {y \in [1..n -> alphabet] \X ({0} \cup 2..n) : Accepted(y[1], y[2])}}

Programs == UNION {ProgramsOver(Alphabet, n) : n \in 1..MaxLen}

\* progMaxFPOff: the largest stack offset of the merged states, 0 without one.
ProgMaxFPOff(mergedStates) ==
  LET offs == UNION {mergedStates[i].Stack : i \in 1..Len(mergedStates)}
  IN IF offs = {} THEN 0 ELSE CHOOSE o \in offs : \A q \in offs : q <= o

\* subProgFuncs: the references of the program's bpf-to-bpf calls.
SubProgFuncs(prog) == {prog[i].ref : i \in {k \in 1..Len(prog) : IsFunctionCall(prog[k])}}

\* The block is the start of the program or of a sub-program.
IsFuncEntry(name, prog, blockSym) == blockSym \in SubProgFuncs(prog) \/ name = blockSym

\* One pass of the loop over the blocks of a program, on the loop's state c
\* (blocks, next: the position of the block, instn, newProgram): the block's
\* inserted code and its instructions are appended to newProgram, instn
\* advances by the block's raw slots.
InstrumentNext(c, name, prog, btf, mergedStates, blockID) ==
  LET block == c.blocks[c.next].Block
      params == IF IsFuncEntry(name, prog, block[1].sym) THEN btf[block[1].sym] ELSE Nil
      usedRegs == mergedStates[c.instn + 1].Registers
  IN [c EXCEPT
        !.newProgram = @ \o InstrumentBlock(block, params, usedRegs, blockID,
                                            ProgMaxFPOff(mergedStates)),
        !.instn = @ + RawLen(block),
        !.next = @ + 1]

\* The loop over the blocks run to its end, the first block getting blockID.
RECURSIVE InstrumentFrom(_, _, _, _, _, _)
InstrumentFrom(c, name, prog, btf, mergedStates, blockID) ==
  IF c.next > Len(c.blocks) THEN c
  ELSE InstrumentFrom(InstrumentNext(c, name, prog, btf, mergedStates, blockID),
                      name, prog, btf, mergedStates, blockID + 1)

\* The state of the loop over the blocks before its first pass.
LoopStart(name, blocks) ==
  [name |-> name, blocks |-> blocks, next |-> 1, instn |-> 0, newProgram |-> <<>>]

\* newProgram of a program whose blocks are numbered from blockID on.
Rewritten(name, prog, btf, mergedStates, blockID) ==
  InstrumentFrom(LoopStart(name, ProgramBlocks(prog)), name, prog, btf, mergedStates,
                 blockID).newProgram

\* The instructions of a block list, in list order.
RECURSIVE Flatten(_)
Flatten(blocks) ==
  IF blocks = <<>> THEN <<>> ELSE blocks[1].Block \o Flatten(Tail(blocks))

(***************************************************************************)
(* State.                                                                  *)
(*   input, cfg, built : a call of ProgramBlocks: the program (with its    *)
(*                       BTF and merged states), the result, whether the   *)
(*                       call has returned.                                *)
(*   rewritten         : the program's newProgram, once computed.          *)
(*   A call of InstrumentAndLoadCollection:                                *)
(*   coll       : the caller's CollectionSpec: Programs (name ->           *)
(*                Instructions, BTF) and Maps.                             *)
(*   optsLogSize: opts.Programs.LogSize, the caller's log size.            *)
(*   merged     : name -> MergedPerInstruction of the program's verifier   *)
(*                log, what the kernel reports in the trial load.          *)
(*   pc         : the position in the function.                            *)
(*   attempt    : i of the trial-load loop.  logSize: clonedOpts' LogSize. *)
(*   cloneColl  : "open" when the last trial load gave a collection, "nil" *)
(*                when it gave none.                                       *)
(*   open       : the number of collections loaded and not closed.         *)
(*   loads      : the calls of the loader so far: how many trial loads,    *)
(*                how many loads of the instrumented collection, and the   *)
(*                log size and the result of the last call.                *)
(*   blockList, blockID : as in the code.                                  *)
(*   cur        : the program being instrumented: name, blocks, the index  *)
(*                of the next block, instn, newProgram.                    *)
(*   placed     : for every block of blockList, the program and the        *)
(*                position in its newProgram where its code was put.       *)
(*   ret        : what the function returned (or that it panicked).        *)
(*   clone      : coll.Copy(), the caller's collection as it was passed.   *)
(*   A kernel running the rewritten program:                               *)
(*   cpus       : CPU -> the position in the program, the registers, the   *)
(*                stack of the current frame, the frames of the callers,   *)
(*                and what the current activation has done so far.         *)
(*   mapValue   : the value of the coverage map's one entry: offset ->     *)
(*                16-bit counter.                                          *)
(*   layout     : block -> where its code lies in the rewritten program.   *)
(*   visits     : block -> the number of entries into the block.           *)
(*   runs       : the number of executions started.                        *)
(*   A call of ParseVerifierLog or of MergedPerInstruction:                *)
(*   log        : the lines of the verifier log the function is called on. *)
(*   fn         : which of the two functions is called.                    *)
(*   scan       : the number of lines the scanner has handed out.          *)
(*   statements : the statements parsed so far.                            *)
(*   curState   : MergedPerInstruction's curState.                         *)
(*   states     : MergedPerInstruction's states, the per-instruction array.*)
(*   parsed     : the outcome of parseStatement in this pass of the loop:  *)
(*                the statement and the lines read after the first.        *)
(*   status     : "running" (before scan.Scan()), "parsed" (a statement is *)
(*                in hand), "returned" or "panicked".                      *)
(*   One 16-bit computation of the engine on a large program:              *)
(*   calc       : the operands (a jump's raw offset and instruction offset,*)
(*                or a block's index and the registers in use at it) and,  *)
(*                once computed, what the engine makes of them.            *)
(***************************************************************************)
VARIABLES input, cfg, built, rewritten,
          coll, optsLogSize, merged, pc, attempt, logSize, cloneColl, open,
          loads, blockList, blockID, cur, placed, ret,
          clone, cpus, mapValue, layout, visits, runs,
          log, fn, scan, statements, curState, states, parsed, status,
          calc

blocksVars == <<input, cfg, built, rewritten>>
handlerVars == <<coll, optsLogSize, merged, pc, attempt, logSize, cloneColl, open,
                 loads, blockList, blockID, cur, placed, ret, clone>>
machineVars == <<cpus, mapValue, layout, visits, runs>>
logVars == <<log, fn, scan, statements, curState, states, parsed, status>>
vars == <<blocksVars, handlerVars, machineVars, logVars, calc>>

BlocksIdle == input = <<>> /\ cfg = <<>> /\ built = FALSE /\ rewritten = <<>>
MachineIdle ==
  cpus = <<>> /\ mapValue = <<>> /\ layout = <<>> /\ visits = <<>> /\ runs = 0

NoCur == [name |-> NoSym, blocks |-> <<>>, next |-> 0, instn |-> 0, newProgram |-> <<>>]
NoRet == [coll |-> "nil", blockList |-> <<>>, err |-> "", panic |-> FALSE]
NoLoads == [trials |-> 0, finals |-> 0, size |-> 0, result |-> ""]

HandlerIdle ==
  /\ coll = [Programs |-> <<>>, Maps |-> <<>>]
  /\ optsLogSize = 0
  /\ merged = <<>>
  /\ pc = "idle"
  /\ attempt = 0
  /\ logSize = 0
  /\ cloneColl = "nil"
  /\ open = 0
  /\ loads = NoLoads
  /\ blockList = <<>>
  /\ blockID = 0
  /\ cur = NoCur
  /\ placed = <<>>
  /\ ret = NoRet
  /\ clone = <<>>

\* The zero value of VerifierState.
NoState == [FrameNumber |-> 0, Registers |-> <<>>, Stack |-> <<>>]
\* The nil interface value (a line that gives no statement), and the outcome
\* of a parse: the statement and the number of lines read after the first.
NoStatement == [kind |-> "none"]
Parsed(stmt, more) == [stmt |-> stmt, more |-> more]

NoCalc == [kind |-> "none"]
CalcIdle == calc = NoCalc

LogIdle ==
  /\ log = <<>>
  /\ fn = ""
  /\ scan = 0
  /\ statements = <<>>
  /\ curState = NoState
  /\ states = <<>>
  /\ parsed = Parsed(NoStatement, 0)
  /\ status = ""

(***************************************************************************)
(* SpecBlocks: ProgramBlocks applied to a program, and then the loop over  *)
(* the blocks of InstrumentAndLoadCollection applied to the result.        *)
(***************************************************************************)
\* What the verifier reports on a program of n raw slots: the same registers
\* and stack slots at every instruction it reports on, and nothing on the
\* instructions after the first upTo.
MergedOf(n, upTo, regs, slots) ==
  [i \in 1..(IF upTo < n THEN upTo ELSE n) |-> [Registers |-> regs, Stack |-> slots]]

\* The BTF of a program that knows all its functions.
FullBTF(prog) ==
  [f \in {MainName} \cup {prog[i].sym : i \in {k \in 1..Len(prog) : prog[k].sym = SubName}}
     |-> IF f = MainName THEN 1 ELSE 2]

InitBlocks ==
  /\ \E prog \in Programs :
       \E ms \in {MergedOf(RawLen(prog), RawLen(prog), {R1, R10}, {}),
                  MergedOf(RawLen(prog), RawLen(prog), 0..10, {8})} :
         input = [Instructions |-> prog, BTF |-> FullBTF(prog), merged |-> ms]
  /\ cfg = <<>>
  /\ built = FALSE
  /\ rewritten = <<>>
  /\ HandlerIdle
  /\ MachineIdle
  /\ LogIdle
  /\ CalcIdle

CallProgramBlocks ==
  /\ input # <<>>
  /\ ~built
  /\ cfg' = ProgramBlocks(input.Instructions)
  /\ built' = TRUE
  /\ UNCHANGED <<input, rewritten, handlerVars, machineVars, logVars, calc>>

RewriteProgram ==
  /\ built
  /\ rewritten = <<>>
  /\ rewritten' = Rewritten(MainName, input.Instructions, input.BTF, input.merged, 0)
  /\ UNCHANGED <<input, cfg, built, handlerVars, machineVars, logVars, calc>>

NextBlocks == CallProgramBlocks \/ RewriteProgram

SpecBlocks == InitBlocks /\ [][NextBlocks]_vars

\* The instructions of the labelled input program: the blocks in list order.
Labelled == Flatten(cfg)

RECURSIVE RawStart(_)
RawStart(k) == IF k = 1 THEN 0 ELSE RawStart(k - 1) + RawLen(cfg[k - 1].Block)

\* The parameter count of the function the k-th block is the entry of (Nil
\* for a block that is no entry), and the registers of the merged state at the
\* block's first instruction.
ParamsOf(k) ==
  IF IsFuncEntry(MainName, input.Instructions, cfg[k].Block[1].sym)
  THEN input.BTF[cfg[k].Block[1].sym] ELSE Nil

UsedAt(k) == input.merged[RawStart(k) + 1].Registers

InsertedFor(k) == Inserted(ParamsOf(k), UsedAt(k), k - 1, ProgMaxFPOff(input.merged))

RECURSIVE StartAt(_)
StartAt(k) ==
  IF k = 1 THEN 1
  ELSE StartAt(k - 1) + Len(InsertedFor(k - 1)) + Len(cfg[k - 1].Block)

Symbols(seq) == {seq[i].sym : i \in 1..Len(seq)} \ {NoSym}

\* C5: in the rewritten program every symbol of the labelled original
\* program appears exactly once, on the first inserted instruction of its
\* block; no original instruction keeps a symbol; between the symbol and the
\* block's first original instruction lies the block's counter store.
C5_SymbolMigration ==
  rewritten # <<>> =>
    /\ \A sym \in Symbols(Labelled) :
         Cardinality({j \in 1..Len(rewritten) : rewritten[j].sym = sym}) = 1
    /\ Symbols(rewritten) = Symbols(Labelled)
    /\ \A k \in 1..Len(cfg) :
         LET first == StartAt(k)
             orig == first + Len(InsertedFor(k))
             block == cfg[k].Block
         IN /\ rewritten[first].sym = block[1].sym
            /\ \A j \in (first + 1)..(orig + Len(block) - 1) : rewritten[j].sym = NoSym
            /\ SubSeq(rewritten, orig, orig + Len(block) - 1)
                 = <<WithSymbol(block[1], NoSym)>> \o Tail(block)
            /\ \E j \in first..(orig - 1) :
                 rewritten[j].op = "stx_h" /\ rewritten[j].off = 2 * (k - 1)

\* A rewritten program with a function name and a jump label, the labelled
\* block not the first.
C5_Witness ==
  /\ rewritten # <<>>
  /\ \E k \in 2..Len(cfg) : cfg[k].Block[1].sym = SubName
  /\ \E k \in 2..Len(cfg) : cfg[k].Block[1].sym[1] = "j"
  /\ \E k \in 1..Len(cfg) : Len(cfg[k].Block) > 1

\* The last instruction of the k-th block of the returned list.
LastInst(k) == cfg[k].Block[Len(cfg[k].Block)]

\* The positions of the returned list at which the block of a successor
\* pointer stands (a pointer is the Index of the block it points to).
ListedAt(ptr) == {m \in 1..Len(cfg) : cfg[m].Index = ptr}

\* C20: in the returned list, the fall-through successor of a block that does
\* not end in Exit is the block at the next position of the list, a block
\* that ends in Exit has none, the branch successor of a block that ends in
\* a jump to a label or in a call of a function is the listed block that
\* bears the referenced symbol, and every successor pointer points to a block
\* of the list.
C20_SuccessorsInList ==
  built =>
    \A k \in 1..Len(cfg) :
      /\ JumpOp(LastInst(k)) # "exit" =>
           /\ k + 1 <= Len(cfg)
           /\ cfg[k].NoBranch = cfg[k + 1].Index
      /\ JumpOp(LastInst(k)) = "exit" => cfg[k].NoBranch = Nil
      /\ (JumpOp(LastInst(k)) \notin {"none", "exit"} /\ LastInst(k).ref # NoSym) =>
           \E m \in ListedAt(cfg[k].Branch) : cfg[m].Block[1].sym = LastInst(k).ref
      /\ cfg[k].NoBranch # Nil => ListedAt(cfg[k].NoBranch) # {}
      /\ cfg[k].Branch # Nil => ListedAt(cfg[k].Branch) # {}

\* C21: in the returned list, a block that ends in a conditional jump has a
\* fall-through successor and a branch successor, and a block that ends in an
\* unconditional jump has a branch successor and no fall-through successor.
C21_JumpSuccessors ==
  built =>
    \A k \in 1..Len(cfg) :
      /\ LastInst(k).op = "jcond" => cfg[k].NoBranch # Nil /\ cfg[k].Branch # Nil
      /\ LastInst(k).op = "ja" => cfg[k].Branch # Nil /\ cfg[k].NoBranch = Nil

\* C22: in the returned list, a block that ends in a call, of a helper or of
\* a function of the program, has the block at the next position as its
\* fall-through successor and no branch successor.
C22_CallSuccessors ==
  built =>
    \A k \in 1..Len(cfg) :
      JumpOp(LastInst(k)) = "call" =>
        /\ k + 1 <= Len(cfg)
        /\ cfg[k].NoBranch = cfg[k + 1].Index
        /\ cfg[k].Branch = Nil

\* The positions of the input program that bear a symbol (a function name).
NamedAt == {i \in 1..Len(input.Instructions) : input.Instructions[i].sym # NoSym}

\* C29: the labelling of the jumps removes or replaces no symbol: an
\* instruction that bears a function name bears it in the returned blocks and
\* is the first of a block, a jump to it included; every call of a function
\* references the symbol of a returned block; and the rewritten program has
\* one prologue for every function name.
C29_LabellingKeepsSymbols ==
  /\ built =>
       /\ \A i \in NamedAt :
            /\ Labelled[i].sym = input.Instructions[i].sym
            /\ \E k \in 1..Len(cfg) : cfg[k].Block[1].sym = input.Instructions[i].sym
       /\ \A i \in 1..Len(input.Instructions) :
            IsFunctionCall(input.Instructions[i]) =>
              \E k \in 1..Len(cfg) : cfg[k].Block[1].sym = input.Instructions[i].ref
  /\ rewritten # <<>> =>
       Cardinality({j \in 1..Len(rewritten) : rewritten[j].op = "ld_map_ptr"})
         = Cardinality(NamedAt)

(***************************************************************************)
(* SpecSequences: ProgramBlocks applied to any instruction sequence, one   *)
(* the kernel would accept as a program or not.  Every jump of a sequence  *)
(* lands on one of its instructions.                                       *)
(***************************************************************************)
MaxSeqLen == 3

SeqAlphabet ==
  {Alu, LdDW, Return, CallHelper(0), WithSymbol(Alu, SubName), Ja(0), JCond(0), JCond(-2)}

Sequences ==
  {p \in UNION {[1..n -> SeqAlphabet] : n \in 1..MaxSeqLen} : JumpTargetsValid(p)}

InitSequences ==
  /\ \E p \in Sequences : input = [Instructions |-> p, BTF |-> <<>>, merged |-> <<>>]
  /\ cfg = <<>>
  /\ built = FALSE
  /\ rewritten = <<>>
  /\ HandlerIdle
  /\ MachineIdle
  /\ LogIdle
  /\ CalcIdle

NextSequences == CallProgramBlocks

SpecSequences == InitSequences /\ [][NextSequences]_vars

\* C19: the instructions of the returned blocks, in list order, are the
\* labelled input sequence; every block of the list is non-empty, the block
\* at position i (from 0) has Index i, and in a block only the first
\* instruction bears a symbol.
C19_BlocksPartitionInput ==
  built =>
    /\ Flatten(cfg) = LabelJumps(input.Instructions)
    /\ \A k \in 1..Len(cfg) :
         /\ cfg[k].Block # <<>>
         /\ cfg[k].Index = k - 1
         /\ \A j \in 2..Len(cfg[k].Block) : cfg[k].Block[j].sym = NoSym

(***************************************************************************)
(* Spec: a call of InstrumentAndLoadCollection.                            *)
(***************************************************************************)
MaxCollLen == 3
SecondName == FnSym(2)
maxAttempts == 5
InitialLogSize == 2 ^ 20
ENOSPC == "ENOSPC"

\* The collections the function is called on: a program of at most MaxCollLen
\* instructions and, possibly, a second program of two blocks.
CollAlphabet == {Alu, Return, JCond(0), CallFn(SubName)}
CollPrograms == UNION {ProgramsOver(CollAlphabet, n) : n \in 1..MaxCollLen}
SecondPrograms == {<<>>, <<WithSymbol(JCond(0), SecondName), Return>>}

HasSub(prog) == \E i \in 1..Len(prog) : prog[i].sym = SubName

\* The BTF of a program: the parameter count of each function it knows.
BTFs(prog, name) ==
  IF name = SecondName THEN {[f \in {SecondName} |-> 1]}
  ELSE IF HasSub(prog)
       THEN {[f \in {MainName, SubName} |-> IF f = MainName THEN 1 ELSE 5],
             [f \in {MainName} |-> 1]}
       ELSE {[f \in {MainName} |-> 1], [f \in {MainName} |-> 0]}

MergedStatesFor(prog) ==
  LET n == RawLen(prog)
  IN {MergedOf(n, n, {}, {}), MergedOf(n, n, {R1, R10}, {}),
      MergedOf(n, n, 0..10, {8}), MergedOf(n, n - 1, {R1, R10}, {16})}

InitHandler ==
  /\ \E main \in CollPrograms, second \in SecondPrograms :
       LET names == {MainName} \cup (IF second = <<>> THEN {} ELSE {SecondName})
           insOf(nm) == IF nm = MainName THEN main ELSE second
       IN /\ \E btfs \in [names -> UNION {BTFs(insOf(nm), nm) : nm \in names}] :
               /\ \A nm \in names : btfs[nm] \in BTFs(insOf(nm), nm)
               /\ coll = [Programs |-> [nm \in names |->
                                          [Instructions |-> insOf(nm),
                                           BTF |-> btfs[nm], BTFNil |-> FALSE]],
                          Maps |-> <<>>]
          /\ \E ms \in MergedStatesFor(main) :
               merged = [nm \in names |->
                           IF nm = MainName THEN ms
                           ELSE MergedOf(RawLen(second), RawLen(second), {R1, R10}, {})]
  /\ optsLogSize \in {0, 64 * InitialLogSize}
  /\ pc = "trial"
  /\ attempt = 0
  /\ logSize = InitialLogSize
  /\ cloneColl = "nil"
  /\ open = 0
  /\ loads = NoLoads
  /\ blockList = <<>>
  /\ blockID = 0
  /\ cur = NoCur
  /\ placed = <<>>
  /\ ret = NoRet
  /\ clone = coll

Init == InitHandler /\ BlocksIdle /\ MachineIdle /\ LogIdle /\ CalcIdle

inputVars == <<optsLogSize, merged, clone>>

\* clonedOpts.Programs.LogSize << 2
GrowLogSizeTwice(size) == size * 2
GrowLogSize(size) == size * 4

\* One pass of the trial-load loop in which the load succeeds.
TrialLoadOK ==
  /\ pc = "trial"
  /\ attempt < maxAttempts
  /\ loads' = [loads EXCEPT !.trials = @ + 1, !.size = logSize, !.result = "ok"]
  /\ cloneColl' = "open"
  /\ open' = open + 1
  /\ attempt' = attempt + 1
  /\ UNCHANGED <<coll, inputVars, pc, logSize, blockList, blockID, cur, placed, ret>>

\* One pass in which the load fails with ENOSPC: the log size is shifted left
\* by two and the loop continues.
TrialLoadNoSpace ==
  /\ pc = "trial"
  /\ attempt < maxAttempts
  /\ loads' = [loads EXCEPT !.trials = @ + 1, !.size = logSize, !.result = ENOSPC]
  /\ cloneColl' = "nil"
  /\ logSize' = GrowLogSize(logSize)
  /\ attempt' = attempt + 1
  /\ UNCHANGED <<coll, inputVars, pc, open, blockList, blockID, cur, placed, ret>>

\* One pass in which the load fails with another error: the function returns.
TrialLoadError ==
  /\ pc = "trial"
  /\ attempt < maxAttempts
  /\ loads' = [loads EXCEPT !.trials = @ + 1, !.size = logSize, !.result = "error"]
  /\ cloneColl' = "nil"
  /\ pc' = "returned"
  /\ ret' = [NoRet EXCEPT !.err = "load program"]
  /\ UNCHANGED <<coll, inputVars, attempt, logSize, open, blockList, blockID, cur,
                 placed>>

\* The loop has made its maxAttempts passes.
LeaveTrialLoop ==
  /\ pc = "trial"
  /\ attempt = maxAttempts
  /\ pc' = "programs"
  /\ UNCHANGED <<coll, inputVars, attempt, logSize, cloneColl, open, loads, blockList,
                 blockID, cur, placed, ret>>

\* cloneColl.Programs[name] (or cloneColl.Close()) with cloneColl nil: a nil
\* pointer dereference.
NilCloneCollPanic ==
  /\ pc = "programs"
  /\ cloneColl = "nil"
  /\ pc' = "panicked"
  /\ ret' = [NoRet EXCEPT !.panic = TRUE]
  /\ UNCHANGED <<coll, inputVars, attempt, logSize, cloneColl, open, loads, blockList,
                 blockID, cur, placed>>

\* The programs the loop over coll.Programs has not visited yet.
Remaining == {nm \in DOMAIN coll.Programs : ~coll.Programs[nm].BTFNil}

\* The head of the loop over coll.Programs, for the program the map iteration
\* yields next: the blocks are computed and appended to blockList.
StartProgram ==
  /\ pc = "programs"
  /\ cloneColl # "nil"
  /\ \E name \in Remaining :
       LET blocks == ProgramBlocks(coll.Programs[name].Instructions)
       IN /\ blockList' = blockList \o blocks
          /\ cur' = LoopStart(name, blocks)
  /\ pc' = "blocks"
  /\ UNCHANGED <<coll, inputVars, attempt, logSize, cloneColl, open, loads, blockID,
                 placed, ret>>

CurBlock == cur.blocks[cur.next].Block
CurProg == coll.Programs[cur.name]
CurIsEntry == IsFuncEntry(cur.name, CurProg.Instructions, CurBlock[1].sym)

\* BTF.TypeByName fails on a function entry: the function returns the error.
MissingFuncPartial ==
  /\ pc = "blocks"
  /\ cur.next <= Len(cur.blocks)
  /\ CurIsEntry
  /\ CurBlock[1].sym \notin DOMAIN CurProg.BTF
  /\ pc' = "returned"
  /\ ret' = [NoRet EXCEPT !.err = "can't find Func"]
  /\ coll' = [coll EXCEPT !.Programs[cur.name].Instructions = cur.newProgram]
  /\ UNCHANGED <<inputVars, attempt, logSize, cloneColl, open, loads, blockList,
                 blockID, cur, placed>>
MissingFunc ==
  /\ pc = "blocks"
  /\ cur.next <= Len(cur.blocks)
  /\ CurIsEntry
  /\ CurBlock[1].sym \notin DOMAIN CurProg.BTF
  /\ pc' = "returned"
  /\ ret' = [NoRet EXCEPT !.err = "can't find Func"]
  /\ UNCHANGED <<coll, inputVars, attempt, logSize, cloneColl, open, loads, blockList,
                 blockID, cur, placed>>

\* mergedStates[instn] with instn past the end of the slice: an index out of
\* range.
MergedIndexPanic ==
  /\ pc = "blocks"
  /\ cur.next <= Len(cur.blocks)
  /\ CurIsEntry => CurBlock[1].sym \in DOMAIN CurProg.BTF
  /\ cur.instn >= Len(merged[cur.name])
  /\ pc' = "panicked"
  /\ ret' = [NoRet EXCEPT !.panic = TRUE]
  /\ UNCHANGED <<coll, inputVars, attempt, logSize, cloneColl, open, loads, blockList,
                 blockID, cur, placed>>

\* One pass of the loop over the blocks: the block's inserted code and its
\* instructions are appended to newProgram.
InstrumentOneBlock ==
  /\ pc = "blocks"
  /\ cur.next <= Len(cur.blocks)
  /\ CurIsEntry => CurBlock[1].sym \in DOMAIN CurProg.BTF
  /\ cur.instn < Len(merged[cur.name])
  /\ LET params == IF CurIsEntry THEN CurProg.BTF[CurBlock[1].sym] ELSE Nil
         mergedStates == merged[cur.name]
         usedRegs == mergedStates[cur.instn + 1].Registers
         progMaxFPOff == ProgMaxFPOff(mergedStates)
     IN /\ cur' = InstrumentNext(cur, cur.name, CurProg.Instructions, CurProg.BTF,
                                  mergedStates, blockID)
        /\ placed' = Append(placed,
                            [name |-> cur.name, at |-> Len(cur.newProgram) + 1,
                             n |-> Len(Inserted(params, usedRegs, blockID, progMaxFPOff))])
  /\ blockID' = blockID + 1
  /\ UNCHANGED <<coll, inputVars, pc, attempt, logSize, cloneColl, open, loads, blockList,
                 ret>>

\* The end of a pass of the loop over coll.Programs: the program gets its new
\* instructions and loses its BTF.
FinishProgram ==
  /\ pc = "blocks"
  /\ cur.next > Len(cur.blocks)
  /\ coll' = [coll EXCEPT !.Programs[cur.name] =
                [Instructions |-> cur.newProgram, BTF |-> <<>>, BTFNil |-> TRUE]]
  /\ cur' = NoCur
  /\ pc' = "programs"
  /\ UNCHANGED <<inputVars, attempt, logSize, cloneColl, open, loads, blockList, blockID,
                 placed, ret>>

\* The coverage map of a collection of blockID blocks.
CoverMapSpecTight(nblocks) ==
  [Name |-> "covermap", Type |-> "Array", KeySize |-> 4, MaxEntries |-> 1,
   ValueSize |-> 2 * nblocks]
CoverMapSpec(nblocks) ==
  [Name |-> "covermap", Type |-> "Array", KeySize |-> 4, MaxEntries |-> 1,
   ValueSize |-> 2 * (nblocks + 1)]

\* After the loop: the trial collection is closed, the coverage map is added
\* and the collection is loaded; the load succeeds.
FinalLoadOK ==
  /\ pc = "programs"
  /\ cloneColl # "nil"
  /\ Remaining = {}
  /\ coll' = [coll EXCEPT !.Maps = [m \in {CoverMapRef} |-> CoverMapSpec(blockID)]]
  /\ loads' = [loads EXCEPT !.finals = @ + 1, !.size = optsLogSize, !.result = "ok"]
  /\ open' = (open - 1) + 1
  /\ ret' = [coll |-> "open", blockList |-> blockList, err |-> "",
             panic |-> FALSE]
  /\ pc' = "returned"
  /\ UNCHANGED <<inputVars, attempt, logSize, cloneColl, blockList, blockID, cur, placed>>

\* The same, the load of the instrumented collection fails.
FinalLoadError ==
  /\ pc = "programs"
  /\ cloneColl # "nil"
  /\ Remaining = {}
  /\ coll' = [coll EXCEPT !.Maps = [m \in {CoverMapRef} |-> CoverMapSpec(blockID)]]
  /\ loads' = [loads EXCEPT !.finals = @ + 1, !.size = optsLogSize, !.result = "error"]
  /\ open' = open - 1
  /\ ret' = [coll |-> "nil", blockList |-> blockList, err |-> "load", panic |-> FALSE]
  /\ pc' = "returned"
  /\ UNCHANGED <<inputVars, attempt, logSize, cloneColl, blockList, blockID, cur, placed>>

Next ==
  \/ (TrialLoadOK /\ UNCHANGED <<blocksVars, machineVars, logVars, calc>>)
  \/ (TrialLoadNoSpace /\ UNCHANGED <<blocksVars, machineVars, logVars, calc>>)
  \/ (TrialLoadError /\ UNCHANGED <<blocksVars, machineVars, logVars, calc>>)
  \/ (LeaveTrialLoop /\ UNCHANGED <<blocksVars, machineVars, logVars, calc>>)
  \/ (NilCloneCollPanic /\ UNCHANGED <<blocksVars, machineVars, logVars, calc>>)
  \/ (StartProgram /\ UNCHANGED <<blocksVars, machineVars, logVars, calc>>)
  \/ (MissingFunc /\ UNCHANGED <<blocksVars, machineVars, logVars, calc>>)
  \/ (MergedIndexPanic /\ UNCHANGED <<blocksVars, machineVars, logVars, calc>>)
  \/ (InstrumentOneBlock /\ UNCHANGED <<blocksVars, machineVars, logVars, calc>>)
  \/ (FinishProgram /\ UNCHANGED <<blocksVars, machineVars, logVars, calc>>)
  \/ (FinalLoadOK /\ UNCHANGED <<blocksVars, machineVars, logVars, calc>>)
  \/ (FinalLoadError /\ UNCHANGED <<blocksVars, machineVars, logVars, calc>>)

Spec == Init /\ [][Next]_vars

\* The offsets into the map value that the code inserted for the k-th block
\* of the run reads and writes.
CounterOffsOf(k) ==
  LET np == IF placed[k].name = cur.name THEN cur.newProgram
            ELSE coll.Programs[placed[k].name].Instructions
  IN {np[j].off : j \in {i \in placed[k].at..(placed[k].at + placed[k].n - 1) :
                           np[i].op \in {"ldx_h", "stx_h"}}}

AllInstructions ==
  UNION {{coll.Programs[nm].Instructions[j] :
            j \in 1..Len(coll.Programs[nm].Instructions)} : nm \in DOMAIN coll.Programs}

\* C9: after a collection of N blocks is instrumented, the map
\* coverbee_covermap is an array map of key size 4, one entry, and value size
\* 2 * (N + 1), so that the counter bytes [2i, 2i + 2) of every block index
\* i < N lie inside the map value.
C9_CoverMapShape ==
  (pc = "returned" /\ loads.finals > 0) =>
    /\ CoverMapRef \in DOMAIN coll.Maps
    /\ LET m == coll.Maps[CoverMapRef]
           N == Len(ret.blockList)
       IN /\ m.Type = "Array"
          /\ m.KeySize = 4
          /\ m.MaxEntries = 1
          /\ m.ValueSize = 2 * (N + 1)
          /\ \A i \in 0..(N - 1) : 2 * i >= 0 /\ 2 * i + 2 <= m.ValueSize
          /\ \A ins \in AllInstructions :
               ins.op \in {"ldx_h", "stx_h"} =>
                 /\ ins.off \in {2 * i : i \in 0..(N - 1)}
                 /\ ins.off + 2 <= m.ValueSize

\* A call that has instrumented two programs of five blocks together and
\* loaded them.
C9_Witness ==
  /\ pc = "returned"
  /\ ret.err = ""
  /\ Len(ret.blockList) = 5
  /\ coll.Maps[CoverMapRef].ValueSize = 12

\* The log sizes of the trial loads: 1, 4, 16, 64, 256 MiB.
TrialLogSizes == {InitialLogSize * (4 ^ k) : k \in 0..(maxAttempts - 1)}

\* C10: the trial load is attempted at most five times; the first attempt
\* has a log buffer of 1 MiB whatever log size the caller's options carry;
\* an attempt that fails with ENOSPC is followed by an attempt with four
\* times its buffer; an attempt that fails with another error ends the call
\* with that error, and no load follows it.
C10_TrialLoadPolicy ==
  /\ [](/\ loads.trials <= maxAttempts
        /\ (loads.trials > 0 /\ loads.finals = 0) => loads.size \in TrialLogSizes
        /\ (loads.finals = 0 /\ loads.result = "error") =>
             /\ pc = "returned"
             /\ ret = [NoRet EXCEPT !.err = "load program"])
  /\ [][/\ (loads.trials = 0 /\ loads'.trials = 1) => loads'.size = InitialLogSize
        /\ (loads'.trials = loads.trials + 1 /\ loads.result = ENOSPC) =>
             loads'.size = 4 * loads.size
        /\ (loads'.trials = loads.trials + 1 /\ loads.result = "ok") =>
             loads'.size = loads.size
        /\ (loads.finals = 0 /\ loads.result = "error") => loads' = loads]_vars

\* A fifth trial load with a buffer of 256 MiB, the caller's options asking
\* for another size.
C10_Witness ==
  /\ loads.trials = maxAttempts
  /\ loads.finals = 0
  /\ loads.size = 256 * InitialLogSize
  /\ optsLogSize # InitialLogSize

\* C11: in a call in which no load fails, the loader is called twice, once
\* for the trial load and once for the instrumented collection, and a trial
\* load that has succeeded is followed by no other trial load.
C11_LoaderInvokedTwice ==
  /\ []((pc = "returned" /\ ret.err = "" /\ ~ret.panic /\ logSize = InitialLogSize) =>
          (loads.trials = 1 /\ loads.finals = 1))
  /\ [][(loads.finals = 0 /\ loads.trials >= 1 /\ loads.result = "ok") =>
          loads'.trials = loads.trials]_vars

\* C12: when all five trial loads have failed with ENOSPC, the call is still
\* in its trial loop or has returned an error and no collection: it is
\* nowhere in the code that follows the loop.
C12_ExhaustedTrialsReturnError ==
  (attempt = maxAttempts /\ logSize = InitialLogSize * (4 ^ maxAttempts)) =>
    \/ pc = "trial"
    \/ (pc = "returned" /\ ret.err # "" /\ ret.coll = "nil")

\* The counter stores of an instruction list.
CounterStores(seq) == {j \in 1..Len(seq) : seq[j].op = "stx_h"}

\* C13: at every point of a call, the instruction list of every program of
\* the caller's collection is its original list or its complete rewritten
\* list, with one counter store per block; a call that returns because the
\* parameter metadata of a function entry is missing leaves the program it
\* was working on with its original list.
C13_NoPartialInstrumentation ==
  /\ \A nm \in DOMAIN coll.Programs :
       LET orig == clone.Programs[nm]
           now == coll.Programs[nm].Instructions
           mine == {k \in 1..Len(placed) : placed[k].name = nm}
       IN \/ now = orig.Instructions
          \/ /\ mine # {}
             /\ Cardinality(CounterStores(now)) = Len(ProgramBlocks(orig.Instructions))
             /\ Cardinality(mine) = Len(ProgramBlocks(orig.Instructions))
             /\ now = Rewritten(nm, orig.Instructions, orig.BTF, merged[nm],
                                (CHOOSE k \in mine : \A m \in mine : k <= m) - 1)
  /\ (pc = "returned" /\ ret.err = "can't find Func") =>
       /\ ret.coll = "nil"
       /\ coll.Programs[cur.name].Instructions = clone.Programs[cur.name].Instructions

\* A call that returns for missing parameter metadata of a sub-program after
\* it has rewritten another program of the collection and has built a part
\* of the new instruction list of the program with the sub-program.
C13_Witness ==
  /\ pc = "returned"
  /\ ret.err = "can't find Func"
  /\ cur.next > 1
  /\ cur.newProgram # <<>>
  /\ \E nm \in DOMAIN coll.Programs :
       /\ coll.Programs[nm].BTFNil
       /\ coll.Programs[nm].Instructions # clone.Programs[nm].Instructions

\* instn of the k-th appended block: the raw slots of the blocks of its
\* program before it.
RECURSIVE InstnOf(_)
InstnOf(k) ==
  IF k = 1 \/ placed[k - 1].name # placed[k].name THEN 0
  ELSE InstnOf(k - 1) + RawLen(blockList[k - 1].Block)

\* The last n instructions of the code inserted for the k-th appended block.
InsertedTail(k, n) ==
  LET np == IF placed[k].name = cur.name THEN cur.newProgram
            ELSE coll.Programs[placed[k].name].Instructions
      end == placed[k].at + placed[k].n - 1
  IN SubSeq(np, end - n + 1, end)

\* Code that saves R8 and R9 to two stack slots, updates a counter with them
\* and restores them from the two slots.
SavesBothScratch(code) ==
  /\ Len(code) = 8
  /\ [j \in 1..8 |-> code[j].op]
       = <<"stx_dw", "stx_dw", "ldx_dw", "ldx_h", "add_imm", "stx_h", "ldx_dw", "ldx_dw">>
  /\ code[1].dst = R10 /\ code[1].src = R8
  /\ code[2].dst = R10 /\ code[2].src = R9
  /\ code[3].dst = R8
  /\ code[4].dst = R9 /\ code[4].src = R8
  /\ code[6].dst = R8 /\ code[6].src = R9
  /\ code[7].dst = R8 /\ code[7].src = R10 /\ code[7].off = code[1].off
  /\ code[8].dst = R9 /\ code[8].src = R10 /\ code[8].off = code[2].off
  /\ code[1].off # code[2].off

\* C25: a block whose first instruction has an empty merged state, or none
\* (the merged array ends before it), is instrumented with all of R0..R9
\* taken as live: the counter update uses R8 and R9 and saves and restores
\* both.
C25_EmptyStateAllLive ==
  /\ (pc = "panicked" /\ cur.name # NoSym) => cur.instn < Len(merged[cur.name])
  /\ \A k \in 1..Len(placed) :
       LET mergedStates == merged[placed[k].name]
       IN (InstnOf(k) >= Len(mergedStates)
             \/ mergedStates[InstnOf(k) + 1].Registers = {}) =>
            /\ placed[k].n >= 8
            /\ SavesBothScratch(InsertedTail(k, 8))

\* C30: when the function has returned, with the collection or with an
\* error, every collection a trial load created is closed: the only
\* collection still open is the instrumented one the caller gets.
C30_TrialCollectionsClosed ==
  pc = "returned" => open = (IF ret.coll = "open" THEN 1 ELSE 0)

(***************************************************************************)
(* The kernel running a rewritten program: what the inserted instructions  *)
(* and the program's own instructions do to a CPU's registers and stack    *)
(* and to the value of the coverage map.                                   *)
(***************************************************************************)
MaxRunLen == 4
MaxRuns == 2
MaxBack == 1
NumCPUs == 2
MaxRaceRuns == 3

\* What a register or a stack slot holds.
Scalar(n) == <<"scalar", n>>
FramePtr(off) == <<"fp", off>>
MapPointer == <<"map_ptr", 0>>
MapValuePtr(off) == <<"map_value", off>>
Unknown(r) == <<"unknown", r>>
Scratched(r) == <<"scratched", r>>

InitRegs == [r \in R0..R10 |-> IF r = R10 THEN FramePtr(0) ELSE Unknown(r)]

\* What an activation has done: calls of the lookup helper, stores to and
\* loads from its coverMap slot.
NewActivation == [lookups |-> 0, stores |-> 0, loads |-> 0]

IdleCPU ==
  [pc |-> 0, regs |-> InitRegs, stack |-> <<>>, frames |-> <<>>,
   act |-> NewActivation, entry |-> InitRegs, pre |-> InitRegs, back |-> 0,
   status |-> "idle"]

\* Where the code of the k-th block lies in the rewritten program: its
\* counter update, its first original instruction, its counter store.
UpdateAt(k) ==
  StartAt(k) + (IF ParamsOf(k) # Nil
                THEN Len(Prologue(ParamsOf(k), ProgMaxFPOff(input.merged))) ELSE 0)
OrigAt(k) == StartAt(k) + Len(InsertedFor(k))
StoreAt(k) == CHOOSE j \in UpdateAt(k)..(OrigAt(k) - 1) : rewritten[j].op = "stx_h"

\* The k-th block in the rewritten program: the positions of its first
\* inserted instruction, of its counter update, of its first original
\* instruction and of its counter store, and what the code was made from.
BlockLayout(k) ==
  [start |-> StartAt(k), update |-> UpdateAt(k), orig |-> OrigAt(k),
   store |-> StoreAt(k), params |-> ParamsOf(k), used |-> UsedAt(k)]

\* The frame offset of the coverMap slot.
CoverSlot == NegOff(CoverMapFPOff(ProgMaxFPOff(input.merged)))

\* The verifier refuses the program: it is never run.
Rejected(c) == [c EXCEPT !.status = "rejected"]

Class(ins) ==
  CASE ins.op \in {"alu", "lddw", "mov_imm", "mov_reg", "add_imm", "ld_map_ptr"} -> "alu"
    [] ins.op \in {"stx_dw", "st_dw", "ldx_dw"} -> "stack"
    [] ins.op \in {"ldx_h", "stx_h"} -> "counter"
    [] ins.op = "call" -> "helper"
    [] ins.op \in {"ja", "jcond", "jne_imm"} -> "branch"
    [] ins.op = "callfn" -> "callfn"
    [] ins.op = "exit" -> "exit"

\* Mov.Imm, Mov.Reg, Add.Imm, LoadMapPtr; an instruction of the original
\* program that is no jump writes a constant to its destination.
ExecALU(ins, c) ==
  CASE ins.op \in {"alu", "lddw", "mov_imm"} ->
         {[c EXCEPT !.regs[ins.dst] = Scalar(ins.imm), !.pc = @ + 1]}
    [] ins.op = "mov_reg" ->
         {[c EXCEPT !.regs[ins.dst] = c.regs[ins.src], !.pc = @ + 1]}
    [] ins.op = "add_imm" ->
         IF c.regs[ins.dst][1] \in {"scalar", "fp", "map_value"}
         THEN {[c EXCEPT !.regs[ins.dst] = <<@[1], @[2] + ins.imm>>, !.pc = @ + 1]}
         ELSE {Rejected(c)}
    [] ins.op = "ld_map_ptr" ->
         IF ins.ref = CoverMapRef
         THEN {[c EXCEPT !.regs[ins.dst] = MapPointer, !.pc = @ + 1]}
         ELSE {Rejected(c)}

\* StoreMem, StoreImm and LoadMem of a double word through the frame pointer:
\* a slot must have been written in this activation before it is read.
ExecStack(ins, c, coverSlot) ==
  LET base == IF ins.op = "ldx_dw" THEN c.regs[ins.src] ELSE c.regs[ins.dst]
      slot == base[2] + ins.off
      value == IF ins.op = "st_dw" THEN Scalar(ins.imm) ELSE c.regs[ins.src]
  IN IF base[1] # "fp" \/ slot >= 0 \/ slot < -512 THEN {Rejected(c)}
     ELSE IF ins.op = "ldx_dw"
     THEN IF slot \notin DOMAIN c.stack THEN {Rejected(c)}
          ELSE {[c EXCEPT !.regs[ins.dst] = c.stack[slot], !.pc = @ + 1,
                          !.act.loads = IF slot = coverSlot THEN @ + 1 ELSE @]}
     ELSE {[c EXCEPT !.stack = (slot :> value) @@ c.stack, !.pc = @ + 1,
                     !.act.stores = IF slot = coverSlot THEN @ + 1 ELSE @]}

\* The offset in the map value a half-word access goes to, Nil when the
\* access is not through a pointer into the map value or not inside it.
CounterAccess(ins, c, valueSize) ==
  LET base == IF ins.op = "ldx_h" THEN c.regs[ins.src] ELSE c.regs[ins.dst]
  IN IF /\ base[1] = "map_value"
        /\ base[2] + ins.off >= 0
        /\ base[2] + ins.off + 2 <= valueSize
        /\ ins.op = "stx_h" => c.regs[ins.src][1] = "scalar"
     THEN base[2] + ins.off ELSE Nil

\* LoadMem and StoreMem of a half word: the counter is read, the low 16 bits
\* of the register are written.
ExecCounter(ins, c, mv, valueSize) ==
  LET o == CounterAccess(ins, c, valueSize)
  IN IF o = Nil THEN {Rejected(c)}
     ELSE IF ins.op = "ldx_h"
     THEN {[c EXCEPT !.regs[ins.dst] = Scalar(mv[o]), !.pc = @ + 1]}
     ELSE {[c EXCEPT !.pc = @ + 1]}

CounterStored(ins, c, mv, valueSize) ==
  LET o == CounterAccess(ins, c, valueSize)
  IN IF ins.op = "stx_h" /\ o # Nil
     THEN [mv EXCEPT ![o] = UInt16(c.regs[ins.src][2])] ELSE mv

\* A helper call: R1..R5 are lost, R0 gets the result.  The lookup in an
\* array map gives the value when the key is below maxEntries, else null.
ExecHelper(ins, c, maxEntries) ==
  LET lost == [r \in R0..R10 |-> IF r \in R1..R5 THEN Scratched(r) ELSE c.regs[r]]
      key == c.regs[R2]
  IN IF ins.imm # FnMapLookupElem
     THEN {[c EXCEPT !.regs = [lost EXCEPT ![R0] = Scratched(R0)], !.pc = @ + 1]}
     ELSE IF \/ c.regs[R1] # MapPointer
             \/ key[1] # "fp"
             \/ key[2] \notin DOMAIN c.stack
             \/ c.stack[key[2]][1] # "scalar"
     THEN {Rejected(c)}
     ELSE {[c EXCEPT !.regs = [lost EXCEPT ![R0] =
                                 IF c.stack[key[2]][2] \in 0..(maxEntries - 1)
                                 THEN MapValuePtr(0) ELSE Scalar(0)],
                     !.pc = @ + 1,
                     !.act.lookups = @ + 1]}

\* The positions of the code that bear a symbol.
Resolve(code, sym) == {j \in 1..Len(code) : code[j].sym = sym}

\* A jump.  The inserted null check skips by its offset; a jump of the
\* program goes to the instruction that bears the label it references, a
\* conditional one may also fall through.  A CPU jumps backwards at most
\* maxBack times in a run.
ExecBranch(code, ins, c, maxBack) ==
  IF ins.op = "jne_imm"
  THEN {[c EXCEPT !.pc = IF c.regs[ins.dst] # Scalar(ins.imm)
                         THEN @ + 1 + ins.off ELSE @ + 1]}
  ELSE IF ins.ref = NoSym \/ Cardinality(Resolve(code, ins.ref)) # 1
  THEN {Rejected(c)}
  ELSE LET t == CHOOSE j \in Resolve(code, ins.ref) : TRUE
           taken == IF t > c.pc THEN {[c EXCEPT !.pc = t]}
                    ELSE IF c.back < maxBack THEN {[c EXCEPT !.pc = t, !.back = @ + 1]}
                    ELSE {}
       IN IF ins.op = "ja" THEN taken ELSE taken \cup {[c EXCEPT !.pc = @ + 1]}

\* A bpf-to-bpf call: a new frame and a new activation; the callee sees the
\* caller's R1..R5.
ExecCallFn(code, ins, c) ==
  IF Cardinality(Resolve(code, ins.ref)) # 1 THEN {Rejected(c)}
  ELSE {[c EXCEPT !.frames = Append(@, [ret |-> c.pc + 1, regs |-> c.regs,
                                        stack |-> c.stack, act |-> c.act]),
                  !.stack = <<>>,
                  !.act = NewActivation,
                  !.pc = CHOOSE j \in Resolve(code, ins.ref) : TRUE]}

\* exit: the run ends, or the caller goes on with its R6..R10 and its frame,
\* the callee's R0, and R1..R5 lost.
ExecExit(c) ==
  IF c.frames = <<>> THEN {[c EXCEPT !.status = "halted"]}
  ELSE LET f == c.frames[Len(c.frames)]
       IN {[c EXCEPT !.regs = [r \in R0..R10 |->
                                 IF r = R0 THEN c.regs[R0]
                                 ELSE IF r \in R1..R5 THEN Scratched(r)
                                 ELSE f.regs[r]],
                     !.stack = f.stack,
                     !.act = f.act,
                     !.frames = SubSeq(@, 1, Len(@) - 1),
                     !.pc = f.ret]}

\* The CPU about to execute the instruction at c.pc, with the registers
\* remembered when this is the first inserted instruction of a function entry
\* or the first instruction of a counter update.
Snapshot(c) ==
  [c EXCEPT !.entry = IF \E k \in DOMAIN layout :
                             layout[k].start = c.pc /\ layout[k].params # Nil
                      THEN c.regs ELSE @,
            !.pre = IF \E k \in DOMAIN layout : layout[k].update = c.pc
                    THEN c.regs ELSE @]

\* The CPUs that can follow c by the instruction at c.pc.
Outcomes(c) ==
  LET ins == rewritten[c.pc]
      s == Snapshot(c)
      map == CoverMapSpec(Len(cfg))
  IN CASE Class(ins) = "alu" -> ExecALU(ins, s)
       [] Class(ins) = "stack" -> ExecStack(ins, s, CoverSlot)
       [] Class(ins) = "counter" -> ExecCounter(ins, s, mapValue, map.ValueSize)
       [] Class(ins) = "helper" -> ExecHelper(ins, s, map.MaxEntries)
       [] Class(ins) = "branch" -> ExecBranch(rewritten, ins, s, MaxBack)
       [] Class(ins) = "callfn" -> ExecCallFn(rewritten, ins, s)
       [] Class(ins) = "exit" -> ExecExit(s)

\* CPU id executes its next instruction, one of the given class.
Step(id, class) ==
  /\ cpus[id].status = "run"
  /\ Class(rewritten[cpus[id].pc]) = class
  /\ \E n \in Outcomes(cpus[id]) :
       /\ n.status # "rejected"
       /\ cpus' = [cpus EXCEPT ![id] = n]
  /\ mapValue' = CounterStored(rewritten[cpus[id].pc], cpus[id], mapValue,
                               CoverMapSpec(Len(cfg)).ValueSize)
  /\ visits' = [k \in DOMAIN layout |->
                  IF cpus[id].pc = layout[k].start THEN visits[k] + 1 ELSE visits[k]]
  /\ UNCHANGED <<layout, runs, blocksVars, handlerVars, logVars, calc>>

\* The instruction at hand is one the verifier refuses.
RejectProgram(id) ==
  /\ cpus[id].status = "run"
  /\ \E n \in Outcomes(cpus[id]) :
       /\ n.status = "rejected"
       /\ cpus' = [cpus EXCEPT ![id] = n]
  /\ UNCHANGED <<mapValue, layout, visits, runs, blocksVars, handlerVars, logVars, calc>>

\* An execution of the program starts on CPU id.
StartRun(id, maxRuns) ==
  /\ cpus[id].status \in {"idle", "halted"}
  /\ runs < maxRuns
  /\ cpus' = [cpus EXCEPT ![id] = [IdleCPU EXCEPT !.pc = 1, !.status = "run"]]
  /\ runs' = runs + 1
  /\ UNCHANGED <<mapValue, layout, visits, blocksVars, handlerVars, logVars, calc>>

\* The machine before the first execution of the program of input on n CPUs.
InitMachine(n) ==
  /\ cfg = ProgramBlocks(input.Instructions)
  /\ built = TRUE
  /\ rewritten = Rewritten(MainName, input.Instructions, input.BTF, input.merged, 0)
  /\ HandlerIdle
  /\ LogIdle
  /\ CalcIdle
  /\ cpus = [id \in 1..n |-> IdleCPU]
  /\ mapValue = [o \in {2 * i : i \in 0..Len(cfg)} |-> 0]
  /\ layout = [k \in 1..Len(cfg) |-> BlockLayout(k)]
  /\ visits = [k \in 1..Len(cfg) |-> 0]
  /\ runs = 0

(***************************************************************************)
(* SpecRun: one CPU runs a rewritten program MaxRuns times.                *)
(***************************************************************************)
\* A program of two blocks, the first a function entry: with one parameter
\* under every merged state over R0..R9, and with every parameter count under
\* the merged states that list no register, the parameters, or all registers.
EntryInputs ==
  {[Instructions |-> <<WithSymbol(JCond(0), MainName), Return>>,
    BTF |-> [f \in {MainName} |-> x[1]],
    merged |-> MergedOf(2, 2, x[2] \cup {R10}, {})] :
     x \in ({1} \X (SUBSET (R0..R9)))
           \cup {<<n, regs>> : n \in 0..5, regs \in {{}, R1..R5, R0..R9}}}

\* The instructions of the programs that are run.
RunAlphabet ==
  {Alu, Return, CallFn(SubName), Ja(1), Ja(-2), JCond(0), JCond(1), JCond(-2), JCond(-3)}

\* The programs of at most MaxRunLen instructions, under two merged states.
FlowInputs ==
  UNION {{[Instructions |-> prog, BTF |-> FullBTF(prog), merged |-> ms] :
            ms \in {MergedOf(RawLen(prog), RawLen(prog), {R1, R10}, {}),
                    MergedOf(RawLen(prog), RawLen(prog), R0..R10, {8})}} :
         prog \in UNION {ProgramsOver(RunAlphabet, n) : n \in 1..MaxRunLen}}

InitRun ==
  /\ input \in EntryInputs \cup FlowInputs
  /\ InitMachine(1)

NextRun ==
  \/ \E id \in DOMAIN cpus : StartRun(id, MaxRuns)
  \/ \E id \in DOMAIN cpus : Step(id, "alu")
  \/ \E id \in DOMAIN cpus : Step(id, "stack")
  \/ \E id \in DOMAIN cpus : Step(id, "counter")
  \/ \E id \in DOMAIN cpus : Step(id, "helper")
  \/ \E id \in DOMAIN cpus : Step(id, "branch")
  \/ \E id \in DOMAIN cpus : Step(id, "callfn")
  \/ \E id \in DOMAIN cpus : Step(id, "exit")
  \/ \E id \in DOMAIN cpus : RejectProgram(id)

SpecRun == InitRun /\ [][NextRun]_vars

NoneRejected == \A id \in DOMAIN cpus : cpus[id].status # "rejected"

\* The CPUs that have entered the k-th block and not yet stored its counter.
InFlight(k) ==
  {id \in DOMAIN cpus : /\ cpus[id].status = "run"
                        /\ cpus[id].pc > layout[k].start
                        /\ cpus[id].pc <= layout[k].store}

\* C1: on a single CPU every entry into a block adds exactly 1 to the
\* block's own 16-bit counter and changes no other counter: at every point
\* of every execution each block's counter is the number of entries into the
\* block so far (less the entry whose counter store is still to come), and
\* the spare slot after the last counter stays 0.
C1_CounterCorrect ==
  (layout # <<>> /\ NoneRejected) =>
    /\ \A k \in DOMAIN layout :
         /\ visits[k] < 65536
         /\ mapValue[2 * (k - 1)] = visits[k] - Cardinality(InFlight(k))
    /\ mapValue[2 * Len(layout)] = 0

\* Two executions have ended; a block was entered three times, another
\* twice, another once.
C1_Witness ==
  /\ layout # <<>>
  /\ runs = MaxRuns
  /\ cpus[1].status = "halted"
  /\ \E k \in DOMAIN layout : visits[k] = 3 /\ mapValue[2 * (k - 1)] = 3
  /\ \E k \in DOMAIN layout : visits[k] = 2 /\ mapValue[2 * (k - 1)] = 2
  /\ \E k \in DOMAIN layout : visits[k] = 1 /\ mapValue[2 * (k - 1)] = 1

\* C3: at every function entry of declared parameter count regCnt in 0..5, on
\* arrival at the first original instruction after the prologue and the entry
\* block's counter update, R1..R_regCnt and R10 hold the values they held
\* when the function was entered.
C3_PrologueNeutral ==
  \A id \in DOMAIN cpus : \A k \in DOMAIN layout :
    (/\ cpus[id].status = "run"
     /\ layout[k].params # Nil
     /\ cpus[id].pc = layout[k].orig) =>
      \A r \in (R1..layout[k].params) \cup {R10} :
        cpus[id].regs[r] = cpus[id].entry[r]

\* The counter update inserted for the k-th block, and the registers it
\* writes.
UpdateOf(k) == SubSeq(rewritten, layout[k].update, layout[k].orig - 1)
Writes(ins, r) == ins.op \in {"ldx_dw", "ldx_h", "add_imm"} /\ ins.dst = r
ScratchOf(seq) == {r \in R0..R10 : \E j \in 1..Len(seq) : Writes(seq[j], r)}
SameIns(a, b) == WithSymbol(a, NoSym) = b

\* Register r is stored to one of the slots before the sequence first writes
\* it and loaded from the same slot after the counter store, as the last
\* write of the register.
SavedAndRestored(seq, r, slots) ==
  \E slot \in slots : \E i, j \in 1..Len(seq) :
    /\ SameIns(seq[i], StoreMemDW(R10, slot, r))
    /\ \A m \in 1..i : ~Writes(seq[m], r)
    /\ SameIns(seq[j], LoadMemDW(r, R10, slot))
    /\ \E m \in 1..(j - 1) : seq[m].op = "stx_h"
    /\ \A m \in (j + 1)..Len(seq) : ~Writes(seq[m], r)

\* C4: the counter update of every block, under every merged state, uses two
\* distinct scratch registers out of R0..R9; a scratch register that the
\* merged state lists is stored to regSave1 or regSave2 before its first
\* write and reloaded from that slot after the counter store; and every
\* register the merged state lists has, at the first original instruction,
\* the value it had when the sequence began.  (The rewritten program does
\* not change while it runs: its instructions are looked at before the first
\* execution.)
C4_ScratchPreserved ==
  \A k \in DOMAIN layout :
    LET seq == UpdateOf(k)
        pmf == ProgMaxFPOff(input.merged)
        slots == {NegOff(RegSave1FPOff(pmf)), NegOff(RegSave2FPOff(pmf))}
    IN /\ runs = 0 =>
            /\ Cardinality(ScratchOf(seq)) = 2
            /\ ScratchOf(seq) \subseteq R0..R9
            /\ \A r \in ScratchOf(seq) :
                 r \in layout[k].used => SavedAndRestored(seq, r, slots)
       /\ \A id \in DOMAIN cpus :
            (cpus[id].status = "run" /\ cpus[id].pc = layout[k].orig) =>
              \A r \in layout[k].used \cap (R0..R10) :
                cpus[id].regs[r] = cpus[id].pre[r]

\* The first original instruction of a block that is no function entry is
\* reached with every register listed, both scratch registers saved and
\* restored.
C4_Witness ==
  \E k \in DOMAIN layout :
    /\ layout[k].params = Nil
    /\ layout[k].used = R0..R10
    /\ cpus[1].status = "run"
    /\ cpus[1].pc = layout[k].orig
    /\ Len(UpdateOf(k)) = 8
    /\ cpus[1].regs = cpus[1].pre

ActivationOK(act, stack) ==
  /\ act.lookups <= 1
  /\ act.stores <= 1
  /\ act.loads > 0 =>
       /\ act.stores = 1
       /\ act.lookups = 1
       /\ stack[CoverSlot] = MapValuePtr(0)

\* C7: in every execution, within each function activation (main program or
\* sub-program) the prologue's store of the looked-up map-value pointer into
\* the coverMap slot has happened before any counter update loads the slot,
\* and the lookup helper is called once per activation: an activation that
\* has reached an original instruction has called it exactly once, however
\* many blocks it has entered.
C7_LookupOncePerActivation ==
  \A id \in DOMAIN cpus :
    cpus[id].status \in {"run", "halted"} =>
      /\ ActivationOK(cpus[id].act, cpus[id].stack)
      /\ \A f \in 1..Len(cpus[id].frames) :
           /\ ActivationOK(cpus[id].frames[f].act, cpus[id].frames[f].stack)
           /\ cpus[id].frames[f].act.lookups = 1
      /\ (\E k \in DOMAIN layout : cpus[id].pc >= layout[k].orig
                                   /\ cpus[id].pc < layout[k].orig + Len(cfg[k].Block)) =>
           cpus[id].act.lookups = 1 /\ cpus[id].act.loads >= 1

\* A sub-program's activation has updated the counters of two of its blocks
\* after one lookup, its caller waiting with one lookup of its own.
C7_Witness ==
  /\ cpus # <<>>
  /\ cpus[1].status = "run"
  /\ Len(cpus[1].frames) = 1
  /\ cpus[1].act.lookups = 1
  /\ cpus[1].act.loads = 2
  /\ cpus[1].frames[1].act.loads >= 1

(***************************************************************************)
(* SpecRace: NumCPUs CPUs run the rewritten one-block program, MaxRaceRuns *)
(* executions in all.                                                      *)
(***************************************************************************)
InitRace ==
  /\ input = [Instructions |-> <<WithSymbol(Return, MainName)>>,
              BTF |-> [f \in {MainName} |-> 1],
              merged |-> MergedOf(1, 1, {R1, R10}, {})]
  /\ InitMachine(NumCPUs)

NextRace ==
  \/ \E id \in DOMAIN cpus : StartRun(id, MaxRaceRuns)
  \/ \E id \in DOMAIN cpus : Step(id, "alu")
  \/ \E id \in DOMAIN cpus : Step(id, "stack")
  \/ \E id \in DOMAIN cpus : Step(id, "counter")
  \/ \E id \in DOMAIN cpus : Step(id, "helper")
  \/ \E id \in DOMAIN cpus : Step(id, "branch")
  \/ \E id \in DOMAIN cpus : Step(id, "exit")

SpecRace == InitRace /\ [][NextRace]_vars

\* C8: when two or more CPUs run the load / add 1 / store sequence on the
\* same counter, under every interleaving the counter never exceeds the
\* number of entries into the block.
C8_CounterIsLowerBound ==
  \A k \in DOMAIN layout :
    /\ visits[k] < 65536
    /\ mapValue[2 * (k - 1)] <= visits[k]
    /\ NoneRejected

\* All executions have ended and an increment is lost: the counter is below
\* the number of entries.
C8_Witness ==
  /\ runs = MaxRaceRuns
  /\ \A id \in DOMAIN cpus : cpus[id].status = "halted"
  /\ visits[1] = MaxRaceRuns
  /\ mapValue[0] < visits[1]

(***************************************************************************)
(* The verifier-log parser (pkg/verifierlog).  A line of the log is a      *)
(* string; positions in a string count from 0 as in the code.              *)
(***************************************************************************)
\* s[lo:hi], and whether the slice expression is in range (it panics when
\* it is not).
Slice(s, lo, hi) == SubSeq(s, lo + 1, hi)
SliceOK(s, lo, hi) == 0 <= lo /\ lo <= hi /\ hi <= Len(s)
Drop(s, n) == SubSeq(s, n + 1, Len(s))

\* strings.HasPrefix, HasSuffix, TrimPrefix, TrimSuffix, Index.
HasPrefix(s, p) == Len(s) >= Len(p) /\ SubSeq(s, 1, Len(p)) = p
HasSuffix(s, p) == Len(s) >= Len(p) /\ SubSeq(s, Len(s) - Len(p) + 1, Len(s)) = p
TrimPrefix(s, p) == IF HasPrefix(s, p) THEN Drop(s, Len(p)) ELSE s
TrimSuffix(s, p) == IF HasSuffix(s, p) THEN SubSeq(s, 1, Len(s) - Len(p)) ELSE s
Index(s, sub) ==
  LET hits == {i \in 0..(Len(s) - Len(sub)) : Slice(s, i, i + Len(sub)) = sub}
  IN IF hits = {} THEN -1 ELSE CHOOSE i \in hits : \A j \in hits : i <= j

\* strings.Trim(s, cutset): the leading and the trailing characters of the
\* cutset removed.  strings.TrimSpace cuts white space.
RECURSIVE Trim(_, _)
Trim(s, cutset) ==
  IF s = "" THEN s
  ELSE IF Slice(s, 0, 1) \in cutset THEN Trim(Drop(s, 1), cutset)
  ELSE IF Slice(s, Len(s) - 1, Len(s)) \in cutset THEN Trim(Slice(s, 0, Len(s) - 1), cutset)
  ELSE s
TrimSpace(s) == Trim(s, {" ", "\t"})

\* strings.Split(s, sep), sep one character.
RECURSIVE Split(_, _)
Split(s, sep) ==
  IF Index(s, sep) = -1 THEN <<s>>
  ELSE <<Slice(s, 0, Index(s, sep))>> \o Split(Drop(s, Index(s, sep) + 1), sep)

DigitChars == {"0", "1", "2", "3", "4", "5", "6", "7", "8", "9"}
HexLower == DigitChars \cup {"a", "b", "c", "d", "e", "f"}
HexChars == HexLower \cup {"A", "B", "C", "D", "E", "F"}

HexVal(c) ==
  CASE c = "0" -> 0 [] c = "1" -> 1 [] c = "2" -> 2 [] c = "3" -> 3 [] c = "4" -> 4
    [] c = "5" -> 5 [] c = "6" -> 6 [] c = "7" -> 7 [] c = "8" -> 8 [] c = "9" -> 9
    [] c \in {"a", "A"} -> 10 [] c \in {"b", "B"} -> 11 [] c \in {"c", "C"} -> 12
    [] c \in {"d", "D"} -> 13 [] c \in {"e", "E"} -> 14 [] c \in {"f", "F"} -> 15

\* strconv.Atoi: the number a string of digits with an optional sign spells;
\* AtoiOK is err == nil, the value is 0 when it is not.
AllDigits(s) == s # "" /\ \A i \in 0..(Len(s) - 1) : Slice(s, i, i + 1) \in DigitChars
AtoiOK(s) ==
  IF HasPrefix(s, "-") \/ HasPrefix(s, "+") THEN AllDigits(Drop(s, 1)) ELSE AllDigits(s)
RECURSIVE DigitsValue(_)
DigitsValue(s) ==
  IF s = "" THEN 0
  ELSE 10 * DigitsValue(Slice(s, 0, Len(s) - 1)) + HexVal(Slice(s, Len(s) - 1, Len(s)))
Atoi(s) ==
  IF ~AtoiOK(s) THEN 0
  ELSE IF HasPrefix(s, "-") THEN 0 - DigitsValue(Drop(s, 1))
  ELSE IF HasPrefix(s, "+") THEN DigitsValue(Drop(s, 1))
  ELSE DigitsValue(s)

\* fmt's %d and %x of a number, %x of a byte slice.
HexDigits == <<"0", "1", "2", "3", "4", "5", "6", "7", "8", "9", "a", "b", "c", "d", "e", "f">>
RECURSIVE Radix(_, _)
Radix(n, base) ==
  IF n < base THEN HexDigits[n + 1] ELSE Radix(n \div base, base) \o HexDigits[(n % base) + 1]
Itoa(n) == IF n < 0 THEN "-" \o Radix(0 - n, 10) ELSE Radix(n, 10)
RECURSIVE EncodeToString(_)
EncodeToString(bytes) ==
  IF bytes = <<>> THEN ""
  ELSE HexDigits[(bytes[1] \div 16) + 1] \o HexDigits[(bytes[1] % 16) + 1]
         \o EncodeToString(Tail(bytes))

\* hex.DecodeString: the bytes of the pairs of hexadecimal digits decoded
\* before the end of the string or the first error; a last digit without a
\* partner is an error (ErrLength) and gives no byte.
RECURSIVE DecodeString(_)
DecodeString(s) ==
  IF Len(s) < 2 THEN <<>>
  ELSE IF Slice(s, 0, 1) \notin HexChars \/ Slice(s, 1, 2) \notin HexChars THEN <<>>
  ELSE <<16 * HexVal(Slice(s, 0, 1)) + HexVal(Slice(s, 1, 2))>> \o DecodeString(Drop(s, 2))

(***************************************************************************)
(* The regular expressions of the parser.  A pattern is a sequence of      *)
(* elements: a literal, an optional literal, a greedy run of characters of *)
(* a class (a capture group), the rest of the line (a capture group), an   *)
(* alternation of literals (a capture group), an optional sub-pattern.     *)
(* None of the parser's expressions needs backtracking.                    *)
(***************************************************************************)
Lit(s) == [t |-> "lit", s |-> s]
OptLit(s) == [t |-> "optlit", s |-> s]
Run(set, neg, min, max) == [t |-> "run", set |-> set, neg |-> neg, min |-> min, max |-> max]
Rest == [t |-> "rest"]
Alt(opts) == [t |-> "alt", opts |-> opts]
Opt(p, empty) == [t |-> "opt", p |-> p, empty |-> empty]
Number == Run(DigitChars, FALSE, 1, -1)

NoMatch == [ok |-> FALSE, pos |-> 0, caps |-> <<>>]

RECURSIVE RunLen(_, _, _, _)
RunLen(s, pos, e, n) ==
  IF pos + n >= Len(s) \/ n = e.max THEN n
  ELSE IF (Slice(s, pos + n, pos + n + 1) \in e.set) = e.neg THEN n
  ELSE RunLen(s, pos, e, n + 1)

RECURSIVE MatchAt(_, _, _, _, _)
MatchAt(pat, k, s, pos, caps) ==
  IF k > Len(pat) THEN [ok |-> TRUE, pos |-> pos, caps |-> caps]
  ELSE LET e == pat[k]
       IN CASE e.t = "lit" ->
                 IF HasPrefix(Drop(s, pos), e.s)
                 THEN MatchAt(pat, k + 1, s, pos + Len(e.s), caps) ELSE NoMatch
            [] e.t = "optlit" ->
                 IF HasPrefix(Drop(s, pos), e.s)
                 THEN MatchAt(pat, k + 1, s, pos + Len(e.s), caps)
                 ELSE MatchAt(pat, k + 1, s, pos, caps)
            [] e.t = "run" ->
                 LET n == RunLen(s, pos, e, 0)
                 IN IF n < e.min THEN NoMatch
                    ELSE MatchAt(pat, k + 1, s, pos + n, Append(caps, Slice(s, pos, pos + n)))
            [] e.t = "rest" -> MatchAt(pat, k + 1, s, Len(s), Append(caps, Drop(s, pos)))
            [] e.t = "alt" ->
                 LET hits == {j \in 1..Len(e.opts) : HasPrefix(Drop(s, pos), e.opts[j])}
                 IN IF hits = {} THEN NoMatch
                    ELSE LET o == e.opts[CHOOSE j \in hits : \A h \in hits : j <= h]
                         IN MatchAt(pat, k + 1, s, pos + Len(o), Append(caps, o))
            [] e.t = "opt" ->
                 LET m == MatchAt(e.p, 1, s, pos, caps)
                 IN IF m.ok THEN MatchAt(pat, k + 1, s, m.pos, m.caps)
                    ELSE MatchAt(pat, k + 1, s, pos, caps \o e.empty)

\* FindStringSubmatch of an expression anchored at the start of the line,
\* and of one that is not: the capture groups, <<>> without a match (every
\* expression of the parser has a group).
FindAnchored(pat, s) == MatchAt(pat, 1, s, 0, <<>>).caps
FindAnywhere(pat, s) ==
  LET hits == {i \in 0..Len(s) : MatchAt(pat, 1, s, i, <<>>).ok}
  IN IF hits = {} THEN <<>>
     ELSE MatchAt(pat, 1, s, CHOOSE i \in hits : \A j \in hits : i <= j, <<>>).caps

recapStateRegex == <<Number, Lit(":"), OptLit(" "), Rest>>
instructionRegex ==
  <<Number, Lit(": ("), Run(HexLower, FALSE, 2, 2), Lit(")"), Run({";"}, TRUE, 1, -1)>>
instructionStateRegex == instructionRegex \o <<Lit(";"), Rest>>
subProgLocRegex == <<Lit("func#"), Number, Lit(" @"), Number>>
statePrunedRegex ==
  <<OptLit("from "), Number, Opt(<<Lit(" to "), Number>>, <<"">>), Lit(": safe")>>
branchEvaluationRegex == <<Lit("from "), Number, Lit(" to "), Number, Lit(": "), Rest>>
backTrackingHeaderRegex == <<Lit("last_idx "), Number, Lit(" first_idx "), Number>>
backTrackInstructionRegex ==
  <<Lit("regs="), Run(HexChars, FALSE, 1, -1), Lit(" stack="), Number, Lit(" before "), Rest>>
backTrackingTrailerRegex ==
  <<Lit("parent "), Alt(<<"didn't have", "already had">>), Lit(" regs="),
    Run(HexChars, FALSE, 1, -1), Lit(" stack="), Number, Lit(" marks"), OptLit(":"),
    OptLit(" "), Rest>>
loadSuccessRegex ==
  <<Lit("processed "), Number, Lit(" insns (limit "), Number,
    Lit(") max_states_per_insn "), Number, Lit(" total_states "), Number,
    Lit(" peak_states "), Number, Lit(" mark_read "), Number>>
returnFuncCallRegex == <<Lit("to caller at "), Number, Lit(":")>>


(***************************************************************************)
(* Register types, register values, register and stack states.            *)
(* A RegType is its base type, named as rtToString names it ("?" is        *)
(* RegTypeNotInit), and the set of its flag bits.                          *)
(***************************************************************************)
LivenessNone == 0
LivenessRead == 1
LivenessWritten == 2
LivenessDone == 3

RegTypeNotInit == [base |-> "?", flags |-> {}]
RegTypeScalarValue == [base |-> "scalar", flags |-> {}]
RegTypePtrToStack == [base |-> "fp", flags |-> {}]

\* The keys of stringToRT; "inv" and "scalar" both stand for RegTypeScalarValue.
TypeNames ==
  {"inv", "scalar", "ctx", "map_ptr", "map_key", "map_value", "fp", "pkt", "pkt_meta",
   "pkt_end", "flow_keys", "sock", "sock_common", "tcp_sock", "tp_buffer", "xdp_sock",
   "ptr_", "mem", "buf", "func"}
stringToRT(name) == IF name = "inv" THEN "scalar" ELSE name

\* A prefix of the line taken off when it is there, with the flag it stands for.
TakeFlag(r, prefix, flag) ==
  IF HasPrefix(r.line, prefix)
  THEN [r EXCEPT !.line = TrimPrefix(@, prefix), !.typ.flags = @ \cup {flag}]
  ELSE r
TakePrecise(r) ==
  IF HasPrefix(r.line, "P") THEN [r EXCEPT !.line = TrimPrefix(@, "P"), !.precise = TRUE]
  ELSE r
\* The longest name of stringToRT the line starts with.
TakeName(r) ==
  LET hits == {n \in TypeNames : HasPrefix(r.line, n)}
  IN IF hits = {} THEN r
     ELSE LET name == CHOOSE n \in hits : \A m \in hits : Len(m) <= Len(n)
          IN [r EXCEPT !.line = TrimPrefix(@, name), !.typ.base = stringToRT(name)]

parseRegisterType(line) ==
  LET r0 == [typ |-> RegTypeNotInit, precise |-> FALSE, line |-> line]
      r1 == TakeFlag(r0, "rdonly_", "rdonly_")
      r2 == TakeFlag(r1, "alloc_", "alloc_")
      r3 == TakeFlag(r2, "user_", "user_")
      r4 == TakeFlag(r3, "per_cpu_", "per_cpu_")
      r5 == TakeName(TakePrecise(r4))
      r6 == TakeFlag(r5, "or_null_", "or_null")
      r7 == TakeFlag(r6, "_or_null_", "or_null")
  IN TakePrecise(r7)

\* RegType.String()
RegTypeString(rt) ==
  (IF "rdonly_" \in rt.flags THEN "rdonly_" ELSE "")
    \o (IF "alloc_" \in rt.flags THEN "alloc_" ELSE "")
    \o (IF "user_" \in rt.flags THEN "user_" ELSE "")
    \o (IF "per_cpu_" \in rt.flags THEN "per_cpu_" ELSE "")
    \o rt.base
    \o (IF "or_null" \notin rt.flags THEN ""
        ELSE IF rt.base = "ptr_" THEN "or_null_" ELSE "_or_null_")

\* The result of a parse that panics.
Panic == [kind |-> "panic"]
IsPanic(x) == "kind" \in DOMAIN x /\ x.kind = "panic"

\* The zero value of RegisterValue.
NoValue ==
  [Type |-> RegTypeNotInit, Off |-> 0, ID |-> 0, RefObjID |-> 0, Range |-> 0,
   KeySize |-> 0, ValueSize |-> 0, Precise |-> FALSE, VarOff |-> [Value |-> 0, Mask |-> 0],
   SMinValue |-> 0, SMaxValue |-> 0, UMinValue |-> 0, UMaxValue |-> 0,
   S32MinValue |-> 0, S32MaxValue |-> 0, U32MinValue |-> 0, U32MaxValue |-> 0]

\* strconv.ParseUint(s, 10, 64) and strconv.ParseInt(s, 16, 64), 0 on an error.
ParseUint(s) == IF AllDigits(s) THEN DigitsValue(s) ELSE 0
RECURSIVE HexValue(_)
HexValue(s) ==
  IF s = "" THEN 0
  ELSE 16 * HexValue(Slice(s, 0, Len(s) - 1)) + HexVal(Slice(s, Len(s) - 1, Len(s)))
ParseHex(s) ==
  LET body == IF HasPrefix(s, "-") \/ HasPrefix(s, "+") THEN Drop(s, 1) ELSE s
      ok == body # "" /\ \A i \in 0..(Len(body) - 1) : Slice(body, i, i + 1) \in HexChars
  IN IF ~ok THEN 0 ELSE IF HasPrefix(s, "-") THEN 0 - HexValue(body) ELSE HexValue(body)

\* var_off=(value; mask): the text between the bracket and the semicolon and
\* the text between the semicolon and the closing bracket are sliced out; the
\* number parsed from the second is stored in VarOff.Value.
SetVarOff(val, valStr, semi, paren) ==
  IF ~SliceOK(valStr, 1, semi) \/ ~SliceOK(valStr, semi + 1, paren) THEN Panic
  ELSE [val EXCEPT !.VarOff.Value = ParseHex(Slice(valStr, semi + 1, paren))]

\* The switch on the key of a pair: intVal is strconv.Atoi of the value and
\* uintVal strconv.ParseUint of it.
SetField(val, key, valStr, intVal, uintVal) ==
  CASE key = "id" -> [val EXCEPT !.ID = intVal]
    [] key = "ref_obj_id" -> [val EXCEPT !.RefObjID = intVal]
    [] key = "off" -> [val EXCEPT !.Off = intVal]
    [] key = "r" -> [val EXCEPT !.Range = intVal]
    [] key = "ks" -> [val EXCEPT !.KeySize = intVal]
    [] key = "vs" -> [val EXCEPT !.ValueSize = intVal]
    [] key = "imm" -> [val EXCEPT !.VarOff.Value = intVal]
    [] key = "smin" -> [val EXCEPT !.SMinValue = intVal]
    [] key = "smax" -> [val EXCEPT !.SMaxValue = intVal]
    [] key = "umin" -> [val EXCEPT !.UMinValue = uintVal]
    [] key = "umax" -> [val EXCEPT !.UMaxValue = uintVal]
    [] key = "s32_min" -> [val EXCEPT !.S32MinValue = intVal]
    [] key = "s32_max" -> [val EXCEPT !.S32MaxValue = intVal]
    [] key = "u32_min" -> [val EXCEPT !.U32MinValue = uintVal]
    [] key = "u32_max" -> [val EXCEPT !.U32MaxValue = uintVal]
    [] key = "var_off" -> SetVarOff(val, valStr, Index(valStr, ";"), Index(valStr, ")"))
    [] OTHER -> val
SetPair(val, key, valStr) == SetField(val, key, valStr, Atoi(valStr), ParseUint(valStr))

\* One pass of the loop over the key=value pairs of a register value; eq is
\* the position of the "=" of the pair.
SplitPair(val, pair, eq) ==
  IF eq = -1 THEN val ELSE SetPair(val, Slice(pair, 0, eq), Drop(pair, eq + 1))
ApplyPair(val, pair) == SplitPair(val, pair, Index(pair, "="))

RECURSIVE ApplyPairs(_, _)
ApplyPairs(val, pairs) ==
  IF pairs = <<>> \/ IsPanic(val) THEN val
  ELSE ApplyPairs(ApplyPair(val, pairs[1]), Tail(pairs))

\* parseRegisterValue: t is what parseRegisterType made of the line, val the
\* value with its type.
ValueOfType(t, val) ==
  IF t.typ = RegTypeScalarValue /\ AtoiOK(t.line)
  THEN [val EXCEPT !.VarOff.Value = Atoi(t.line)]
  ELSE ApplyPairs(val, Split(TrimSuffix(TrimPrefix(t.line, "("), ")"), ","))
TypedValue(t) == ValueOfType(t, [NoValue EXCEPT !.Type = t.typ, !.Precise = t.precise])
parseRegisterValue(line) == TypedValue(parseRegisterType(TrimSpace(line)))

\* RegisterValue.String().  VarOff.Mask is assigned nowhere in the package,
\* so VarOff.isConst() holds of every value the parser builds and the branch
\* that prints the bounds of a value that is not constant (lines 839-875) is
\* never taken; it is rendered as "<bounds>".
RegisterValueString(rv) ==
  LET base == rv.Type.base
      isConst == rv.VarOff.Mask = 0
      p == IF rv.Type = RegTypeScalarValue /\ rv.Precise THEN "P" ELSE ""
      id == IF rv.ID # 0 THEN <<"id=" \o Itoa(rv.ID)>> ELSE <<>>
      ref == IF base \in {"sock", "tcp_sock", "mem"}
             THEN <<"ref_obj_id=" \o Itoa(rv.RefObjID)>> ELSE <<>>
      off == IF base # "scalar" THEN <<"off=" \o Itoa(rv.Off)>> ELSE <<>>
      rng == IF base \in {"pkt", "pkt_meta"} THEN <<"r=" \o Itoa(rv.Range)>>
             ELSE IF base \in {"map_ptr", "map_key", "map_value"}
             THEN <<"ks=" \o Itoa(rv.KeySize) \o ",vs=" \o Itoa(rv.ValueSize)>>
             ELSE <<>>
      imm == IF isConst THEN <<"imm=" \o Itoa(rv.VarOff.Value)>> ELSE <<"<bounds>">>
      args == id \o ref \o off \o rng \o imm
      Join[k \in 1..Len(args)] ==
        IF k = 1 THEN args[1] ELSE Join[k - 1] \o "," \o args[k]
  IN IF rv.Type \in {RegTypeScalarValue, RegTypePtrToStack} /\ isConst
     THEN (IF rv.Type = RegTypeScalarValue THEN p \o Itoa(rv.VarOff.Value + rv.Off)
           ELSE p \o RegTypeString(rv.Type))
     ELSE p \o RegTypeString(rv.Type) \o "(" \o Join[Len(args)] \o ")"

LivenessSuffix(l) ==
  CASE l = LivenessRead -> "_r" [] l = LivenessWritten -> "_w" [] l = LivenessDone -> "_D"
    [] OTHER -> ""

\* The suffixes of a key, tested one after the other: the key without them
\* and the liveness of the last one taken off.
TakeSuffix(k, suffix, liveness) ==
  IF HasSuffix(k.key, suffix)
  THEN [key |-> TrimSuffix(k.key, suffix), Liveness |-> liveness] ELSE k
TakeLiveness(key) ==
  TakeSuffix(TakeSuffix(TakeSuffix([key |-> key, Liveness |-> LivenessNone],
                                   "_r", LivenessRead), "_w", LivenessWritten),
             "_D", LivenessDone)

\* parseRegisterState: k is the key without its suffixes and the liveness,
\* val the parsed value.
RegisterStateOf(k, val) ==
  IF IsPanic(val) THEN Panic
  ELSE [Register |-> Atoi(Trim(k.key, {"R"})), Liveness |-> k.Liveness, Value |-> val]
parseRegisterState(key, value) ==
  RegisterStateOf(TakeLiveness(key), parseRegisterValue(value))

\* RegisterState.String()
RegisterStateString(r) ==
  "R" \o Itoa(r.Register) \o LivenessSuffix(r.Liveness) \o "=" \o RegisterValueString(r.Value)

\* The zero byte of a Slots array that the value did not fill.
NUL == "~"
RECURSIVE Zeroes(_)
Zeroes(n) == IF n <= 0 THEN "" ELSE NUL \o Zeroes(n - 1)

\* parseStackState: k is the key without its suffixes and the liveness, t
\* what parseRegisterType made of the value.
StackStateOf(k, t) ==
  LET n == IF Len(t.line) < 8 THEN Len(t.line) ELSE 8
  IN [Offset |-> Atoi(Trim(k.key, {"f", "p", "-"})), Liveness |-> k.Liveness,
      SpilledRegister |-> [NoValue EXCEPT !.Type = t.typ, !.Precise = t.precise],
      Slots |-> IF t.typ # RegTypeNotInit THEN Zeroes(8)
                ELSE Slice(t.line, 0, n) \o Zeroes(8 - n)]
parseStackState(key, value) == StackStateOf(TakeLiveness(key), parseRegisterType(value))

\* StackState.String(): rtToString has the base types as its keys, a type
\* with a flag bit is not in it.
StackStateString(ss) ==
  "fp-" \o Itoa(ss.Offset) \o LivenessSuffix(ss.Liveness) \o "="
    \o (IF ss.SpilledRegister.Type # RegTypeNotInit
        THEN (IF ss.SpilledRegister.Type.flags = {} THEN ss.SpilledRegister.Type.base ELSE "")
        ELSE ss.Slots)

\* The scan for the end of a value, i being the position to look at: a space
\* outside brackets ends the value, and so does the end of the line.
RECURSIVE ValueEnd(_, _, _)
ValueEnd(line, i, bktDepth) ==
  IF i >= Len(line) THEN [atEnd |-> TRUE, i |-> i]
  ELSE IF Slice(line, i, i + 1) = "(" THEN ValueEnd(line, i + 1, bktDepth + 1)
  ELSE IF Slice(line, i, i + 1) = ")" THEN ValueEnd(line, i + 1, bktDepth - 1)
  ELSE IF Slice(line, i, i + 1) = " " /\ bktDepth = 0 THEN [atEnd |-> FALSE, i |-> i]
  ELSE ValueEnd(line, i + 1, bktDepth)

\* The loop over the key=value entries of a state.  The entry of the key is
\* appended to the stack or to the registers, and the loop goes on in what is
\* left of the line.
RECURSIVE ParseEntries(_, _)
AddEntry(state, key, entry, next) ==
  IF IsPanic(entry) THEN Panic
  ELSE IF HasPrefix(key, "fp")
       THEN ParseEntries(next, [state EXCEPT !.Stack = Append(@, entry)])
       ELSE ParseEntries(next, [state EXCEPT !.Registers = Append(@, entry)])
EntryOf(key, value) ==
  IF HasPrefix(key, "fp") THEN parseStackState(key, value)
  ELSE parseRegisterState(key, value)
\* v is where the value ends in rest, the line after the "=": line[i:] is out
\* of range when the scan ran to the end of a line that is empty.
EntryValue(state, key, rest, v) ==
  IF v.atEnd /\ ~SliceOK(rest, v.i, Len(rest)) THEN Panic
  ELSE AddEntry(state, key,
                EntryOf(key, IF v.atEnd THEN rest ELSE Slice(rest, 0, v.i)),
                IF v.atEnd THEN Drop(rest, v.i) ELSE Drop(rest, v.i + 1))
EntryAt(state, line, equal) ==
  IF equal = -1 THEN state
  ELSE EntryValue(state, Slice(line, 0, equal), Drop(line, equal + 1),
                  ValueEnd(Drop(line, equal + 1), 1, 0))
ParseEntries(line, state) == EntryAt(state, line, Index(line, "="))

\* parseVerifierState: l1 is the line after "frame", colon the position of
\* the colon in it.
FrameState(l1, colon) ==
  IF ~SliceOK(l1, 0, colon) THEN Panic
  ELSE ParseEntries(TrimSpace(Drop(l1, colon + 1)),
                    [NoState EXCEPT !.FrameNumber = Atoi(Slice(l1, 0, colon))])
FrameLine(l1) == FrameState(l1, Index(l1, ":"))
StateOfLine(l0) ==
  IF ~HasPrefix(l0, "frame") THEN ParseEntries(l0, NoState)
  ELSE FrameLine(TrimPrefix(l0, "frame"))
parseVerifierState(line) == StateOfLine(TrimSpace(line))

\* VerifierState.String()
VerifierStateString(is) ==
  LET frame == IF is.FrameNumber # 0 THEN "frame" \o Itoa(is.FrameNumber) \o ": " ELSE ""
      Regs[i \in 0..Len(is.Registers)] ==
        IF i = 0 THEN ""
        ELSE Regs[i - 1] \o RegisterStateString(is.Registers[i])
               \o (IF i < Len(is.Registers) \/ Len(is.Stack) > 0 THEN " " ELSE "")
      Slots[i \in 0..Len(is.Stack)] ==
        IF i = 0 THEN ""
        ELSE Slots[i - 1] \o StackStateString(is.Stack[i])
               \o (IF i < Len(is.Stack) THEN " " ELSE "")
  IN frame \o Regs[Len(is.Registers)] \o Slots[Len(is.Stack)]


(***************************************************************************)
(* Statements.  A statement is a record with its kind and its fields;      *)
(* NilOf(type) is a nil pointer of a statement type, which the callers of  *)
(* parseStatement take for a statement as it is not the nil interface.     *)
(***************************************************************************)
NilOf(type) == [kind |-> "nil", type |-> type]

InstructionOf(match) ==
  [kind |-> "Instruction", InstructionNumber |-> Atoi(match[1]),
   Opcode |-> DecodeString(match[2])[1], Assembly |-> match[3]]

parseInstruction(line) ==
  LET match == FindAnchored(instructionRegex, line)
  IN IF match = <<>> THEN [kind |-> "Error", Msg |-> "instruction state: no match"]
     ELSE InstructionOf(match)

\* The statement with the state parsed for it in the field, a panic when the
\* parse of the state panics.
WithState(stmt, field, state) ==
  IF IsPanic(state) THEN Panic ELSE (field :> state) @@ stmt

InstructionStateOf(match) ==
  WithState([kind |-> "InstructionState", Instruction |-> InstructionOf(match)],
            "State", parseVerifierState(match[4]))
parseInstructionState(line) ==
  InstructionStateOf(FindAnchored(instructionStateRegex, line))

RecapStateOf(match) ==
  WithState([kind |-> "RecapState", InstructionNumber |-> Atoi(match[1])],
            "State", parseVerifierState(match[2]))
parseRecapState(line) == RecapStateOf(FindAnchored(recapStateRegex, line))

parseSubProgLocation(line) ==
  LET match == FindAnchored(subProgLocRegex, line)
  IN IF match = <<>> THEN NilOf("SubProgLocation")
     ELSE [kind |-> "SubProgLocation", ProgID |-> Atoi(match[1]),
           StartInstruction |-> Atoi(match[2])]

parsePropagatePrecision(line) ==
  LET l == TrimPrefix(line, "propagating ")
  IN IF HasPrefix(l, "r")
     THEN [kind |-> "PropagatePrecision", Register |-> Atoi(TrimPrefix(l, "r")),
           Offset |-> 0]
     ELSE [kind |-> "PropagatePrecision", Register |-> Nil,
           Offset |-> Atoi(TrimPrefix(l, "fp-"))]

\* match[1] of a line the expression does not match is an index out of range.
parseBackTrackingHeader(line) ==
  LET match == FindAnchored(backTrackingHeaderRegex, line)
  IN IF match = <<>> THEN Panic
     ELSE [kind |-> "BackTrackingHeader", Last |-> Atoi(match[1]), First |-> Atoi(match[2])]

parseStatePruned(line) ==
  LET match == FindAnchored(statePrunedRegex, line)
  IN [kind |-> "StatePruned", From |-> Atoi(match[1]),
      To |-> IF match[2] # "" THEN Atoi(match[2]) ELSE Atoi(match[1])]

BranchEvaluationOf(match) ==
  WithState([kind |-> "BranchEvaluation", From |-> Atoi(match[1]), To |-> Atoi(match[2])],
            "State", parseVerifierState(match[3]))
parseBranchEvaluation(line) == BranchEvaluationOf(FindAnchored(branchEvaluationRegex, line))

\* instruction.(*Instruction) panics when parseInstruction gave an *Error.
BackTrackInstructionOf(match, instruction) ==
  IF instruction.kind # "Instruction" THEN Panic
  ELSE [kind |-> "BackTrackInstruction", Regs |-> DecodeString(match[1]),
        Stack |-> Atoi(match[2]), Instruction |-> instruction]
BackTrackInstructionAt(match) == BackTrackInstructionOf(match, parseInstruction(match[3]))
parseBackTrackInstruction(line) ==
  BackTrackInstructionAt(FindAnchored(backTrackInstructionRegex, line))

BackTrackingTrailerOf(match) ==
  WithState([kind |-> "BackTrackingTrailer", ParentMatch |-> match[1] = "already had",
             Regs |-> DecodeString(match[2]), Stack |-> Atoi(match[3])],
            "VerifierState", parseVerifierState(match[4]))
parseBacktrackingTrailer(line) ==
  BackTrackingTrailerOf(FindAnywhere(backTrackingTrailerRegex, line))

parseLoadSuccess(line) ==
  LET match == FindAnywhere(loadSuccessRegex, line)
  IN [kind |-> "VerifierDone", Counts |-> [i \in 1..6 |-> Atoi(match[i])]]

\* parseFunctionCall and parseReturnFunctionCall on the line at position k of
\* the lines; scan.Scan() fails when the lines have run out.
FunctionCallOf(callerState, calleeState) ==
  [kind |-> "FunctionCall", CallerState |-> callerState, CalleeState |-> calleeState]
CalleeOfCall(avail, callerState, calleeState) ==
  IF avail < 3 THEN Parsed(NilOf("FunctionCall"), 2)
  ELSE IF IsPanic(calleeState) THEN Parsed(Panic, 3)
  ELSE Parsed(FunctionCallOf(callerState, calleeState), 3)
CallerOfCall(lines, k, avail, callerState) ==
  IF IsPanic(callerState) THEN Parsed(Panic, 1)
  ELSE IF avail < 2 THEN Parsed(NilOf("FunctionCall"), 1)
  ELSE IF TrimSpace(lines[k + 2]) # "callee:" THEN Parsed(NilOf("FunctionCall"), 2)
  ELSE CalleeOfCall(avail, callerState, parseVerifierState(lines[k + 3]))
FunctionCallAt(lines, k, avail) ==
  IF TrimSpace(lines[k]) # "caller:" THEN Parsed(NilOf("FunctionCall"), 0)
  ELSE IF avail < 1 THEN Parsed(NilOf("FunctionCall"), 0)
  ELSE CallerOfCall(lines, k, avail, parseVerifierState(lines[k + 1]))
parseFunctionCall(lines, k) == FunctionCallAt(lines, k, Len(lines) - k)

\* match[1] of a line the expression does not match is an index out of range.
ReturnFunctionCallOf(calleeState, match, callerState) ==
  [kind |-> "ReturnFunctionCall", CalleeState |-> calleeState,
   CallSite |-> Atoi(match[1]), CallerState |-> callerState]
CallerOfReturn(avail, calleeState, match, callerState) ==
  IF avail < 3 THEN Parsed(NilOf("ReturnFunctionCall"), 2)
  ELSE IF IsPanic(callerState) THEN Parsed(Panic, 3)
  ELSE Parsed(ReturnFunctionCallOf(calleeState, match, callerState), 3)
CallSiteOfReturn(lines, k, avail, calleeState, match) ==
  IF match = <<>> THEN Parsed(Panic, 2)
  ELSE CallerOfReturn(avail, calleeState, match, parseVerifierState(lines[k + 3]))
CalleeOfReturn(lines, k, avail, calleeState) ==
  IF IsPanic(calleeState) THEN Parsed(Panic, 1)
  ELSE IF avail < 2 THEN Parsed(NilOf("ReturnFunctionCall"), 1)
  ELSE CallSiteOfReturn(lines, k, avail, calleeState,
                        FindAnchored(returnFuncCallRegex, lines[k + 2]))
ReturnFunctionCallAt(lines, k, avail) ==
  IF TrimSpace(lines[k]) # "returning from callee:"
  THEN Parsed(NilOf("ReturnFunctionCall"), 0)
  ELSE IF avail < 1 THEN Parsed(NilOf("ReturnFunctionCall"), 0)
  ELSE CalleeOfReturn(lines, k, avail, parseVerifierState(lines[k + 1]))
parseReturnFunctionCall(lines, k) == ReturnFunctionCallAt(lines, k, Len(lines) - k)

\* parseStatement with the scanner on the line at position k.
parseStatement(lines, k) ==
  LET line == lines[k]
  IN IF line = "" THEN Parsed(NoStatement, 0)
     ELSE IF HasPrefix(line, ";")
          THEN Parsed([kind |-> "Comment", Comment |-> TrimPrefix(line, "; ")], 0)
     ELSE IF HasPrefix(line, "func#") THEN Parsed(parseSubProgLocation(line), 0)
     ELSE IF HasPrefix(line, "propagating") THEN Parsed(parsePropagatePrecision(line), 0)
     ELSE IF HasPrefix(line, "last_idx") THEN Parsed(parseBackTrackingHeader(line), 0)
     ELSE IF HasPrefix(line, "caller") THEN parseFunctionCall(lines, k)
     ELSE IF HasPrefix(line, "returning from callee") THEN parseReturnFunctionCall(lines, k)
     ELSE IF FindAnchored(statePrunedRegex, line) # <<>>
          THEN Parsed(parseStatePruned(line), 0)
     ELSE IF FindAnchored(instructionStateRegex, line) # <<>>
          THEN Parsed(parseInstructionState(line), 0)
     ELSE IF FindAnchored(instructionRegex, line) # <<>>
          THEN Parsed(parseInstruction(line), 0)
     ELSE IF FindAnchored(recapStateRegex, line) # <<>>
          THEN Parsed(parseRecapState(line), 0)
     ELSE IF FindAnchored(branchEvaluationRegex, line) # <<>>
          THEN Parsed(parseBranchEvaluation(line), 0)
     ELSE IF FindAnchored(backTrackInstructionRegex, line) # <<>>
          THEN Parsed(parseBackTrackInstruction(line), 0)
     ELSE IF FindAnywhere(backTrackingTrailerRegex, line) # <<>>
          THEN Parsed(parseBacktrackingTrailer(line), 0)
     ELSE IF FindAnywhere(loadSuccessRegex, line) # <<>>
          THEN Parsed(parseLoadSuccess(line), 0)
     ELSE Parsed([kind |-> "Unknown", Log |-> line], 0)

\* String() of an Instruction: %d: (%02x)%s
InstructionString(is) ==
  Itoa(is.InstructionNumber) \o ": (" \o EncodeToString(<<is.Opcode>>) \o ")" \o is.Assembly

\* String() of a statement that is no nil pointer.
StatementString(st) ==
  CASE st.kind = "Unknown" -> st.Log
    [] st.kind = "Error" -> st.Msg
    [] st.kind = "Comment" -> "; " \o st.Comment
    [] st.kind = "RecapState" ->
         Itoa(st.InstructionNumber) \o ": " \o VerifierStateString(st.State)
    [] st.kind = "InstructionState" ->
         InstructionString(st.Instruction) \o "; " \o VerifierStateString(st.State)
    [] st.kind = "Instruction" -> InstructionString(st)
    [] st.kind = "SubProgLocation" ->
         "func#" \o Itoa(st.ProgID) \o " @" \o Itoa(st.StartInstruction)
    [] st.kind = "PropagatePrecision" ->
         IF st.Register # Nil THEN "propagating r" \o Itoa(st.Register)
         ELSE "propagating fp-" \o Itoa(st.Offset)
    [] st.kind = "StatePruned" ->
         IF st.From = st.To THEN Itoa(st.From) \o ": safe"
         ELSE "from " \o Itoa(st.From) \o " to " \o Itoa(st.To) \o ": safe"
    [] st.kind = "BranchEvaluation" ->
         "from " \o Itoa(st.From) \o " to " \o Itoa(st.To) \o ": "
           \o VerifierStateString(st.State)
    [] st.kind = "BackTrackingHeader" ->
         "last_idx " \o Itoa(st.Last) \o " first_idx " \o Itoa(st.First)
    [] st.kind = "BackTrackInstruction" ->
         "regs=" \o EncodeToString(st.Regs) \o " stack=" \o Itoa(st.Stack) \o " before "
           \o InstructionString(st.Instruction)
    [] st.kind = "BackTrackingTrailer" ->
         "parent " \o (IF st.ParentMatch THEN "already had" ELSE "didn't have")
           \o " regs=" \o EncodeToString(st.Regs) \o " stack=" \o Itoa(st.Stack)
           \o " marks: " \o VerifierStateString(st.VerifierState)
    [] st.kind = "VerifierDone" ->
         "processed " \o Itoa(st.Counts[1]) \o " insns (limit " \o Itoa(st.Counts[2])
           \o ") max_states_per_insn " \o Itoa(st.Counts[3]) \o " total_states "
           \o Itoa(st.Counts[4]) \o " peak_states " \o Itoa(st.Counts[5]) \o " mark_read "
           \o Itoa(st.Counts[6])
    [] st.kind = "FunctionCall" ->
         "caller:\n" \o VerifierStateString(st.CallerState) \o "\ncallee:\n"
           \o VerifierStateString(st.CalleeState)
    [] st.kind = "ReturnFunctionCall" ->
         "returning from callee:\n" \o VerifierStateString(st.CalleeState)
           \o "\nto caller at " \o Itoa(st.CallSite) \o ":\n"
           \o VerifierStateString(st.CallerState)

(***************************************************************************)
(* MergedPerInstruction.                                                   *)
(***************************************************************************)
\* The position in a list of register (or stack) states of the first one
\* with the register (or offset) of e, 0 when there is none.
FindReg(list, e) ==
  LET hits == {i \in 1..Len(list) : list[i].Register = e.Register}
  IN IF hits = {} THEN 0 ELSE CHOOSE i \in hits : \A j \in hits : i <= j
FindSlot(list, e) ==
  LET hits == {i \in 1..Len(list) : list[i].Offset = e.Offset}
  IN IF hits = {} THEN 0 ELSE CHOOSE i \in hits : \A j \in hits : i <= j

\* mergeCurState: every register and slot of the statement's state replaces
\* the one of curState with its key, or is appended.
RECURSIVE MergeRegs(_, _)
MergeRegs(cs, new) ==
  IF new = <<>> THEN cs
  ELSE MergeRegs(IF FindReg(cs, new[1]) # 0
                 THEN [cs EXCEPT ![FindReg(cs, new[1])] = new[1]]
                 ELSE Append(cs, new[1]), Tail(new))
RECURSIVE MergeSlots(_, _)
MergeSlots(cs, new) ==
  IF new = <<>> THEN cs
  ELSE MergeSlots(IF FindSlot(cs, new[1]) # 0
                  THEN [cs EXCEPT ![FindSlot(cs, new[1])] = new[1]]
                  ELSE Append(cs, new[1]), Tail(new))
mergeCurState(cs, state) ==
  [cs EXCEPT !.Registers = MergeRegs(@, state.Registers),
              !.Stack = MergeSlots(@, state.Stack)]

\* applyCurState: states grows to instNum + 1 entries; every register and
\* slot of curState whose key states[instNum] does not have is appended to
\* it, the ones it has stay as they are.
RECURSIVE AddRegs(_, _)
AddRegs(have, cs) ==
  IF cs = <<>> THEN have
  ELSE AddRegs(IF FindReg(have, cs[1]) # 0 THEN have ELSE Append(have, cs[1]), Tail(cs))
RECURSIVE AddSlots(_, _)
AddSlots(have, cs) ==
  IF cs = <<>> THEN have
  ELSE AddSlots(IF FindSlot(have, cs[1]) # 0 THEN have ELSE Append(have, cs[1]), Tail(cs))
Grown(sts, instNum) ==
  IF instNum >= Len(sts) THEN sts \o [i \in 1..(1 + instNum - Len(sts)) |-> NoState]
  ELSE sts
applyCurStateOverwrite(sts, cs, instNum) ==
  [Grown(sts, instNum) EXCEPT ![instNum + 1] = cs]
applyCurState(sts, cs, instNum) ==
  [Grown(sts, instNum) EXCEPT ![instNum + 1].Registers = AddRegs(@, cs.Registers),
                              ![instNum + 1].Stack = AddSlots(@, cs.Stack)]

\* The body of the loop of MergedPerInstruction for a parsed statement, on
\* m = [curState, states]; a nil *ReturnFunctionCall is dereferenced.
MergeStatementMergeFirst(m, stmt) ==
  CASE stmt.kind = "RecapState" ->
         [m EXCEPT !.curState = mergeCurState(@, stmt.State)]
    [] stmt.kind = "ReturnFunctionCall" -> [m EXCEPT !.curState = stmt.CallerState]
    [] stmt.kind = "nil" /\ stmt.type = "ReturnFunctionCall" -> Panic
    [] stmt.kind = "BranchEvaluation" -> [m EXCEPT !.curState = stmt.State]
    [] stmt.kind = "Instruction" ->
         [m EXCEPT !.states = applyCurState(@, m.curState, stmt.InstructionNumber)]
    [] stmt.kind = "InstructionState" ->
         [curState |-> mergeCurState(m.curState, stmt.State),
          states |-> applyCurState(m.states, mergeCurState(m.curState, stmt.State),
                                   stmt.Instruction.InstructionNumber)]
    [] OTHER -> m
MergeStatement(m, stmt) ==
  CASE stmt.kind = "RecapState" ->
         [m EXCEPT !.curState = mergeCurState(@, stmt.State)]
    [] stmt.kind = "ReturnFunctionCall" -> [m EXCEPT !.curState = stmt.CallerState]
    [] stmt.kind = "nil" /\ stmt.type = "ReturnFunctionCall" -> Panic
    [] stmt.kind = "BranchEvaluation" -> [m EXCEPT !.curState = stmt.State]
    [] stmt.kind = "Instruction" ->
         [m EXCEPT !.states = applyCurState(@, m.curState, stmt.InstructionNumber)]
    [] stmt.kind = "InstructionState" ->
         [curState |-> mergeCurState(m.curState, stmt.State),
          states |-> applyCurState(m.states, m.curState,
                                   stmt.Instruction.InstructionNumber)]
    [] OTHER -> m


(***************************************************************************)
(* SpecLog: a call of ParseVerifierLog or of MergedPerInstruction on a     *)
(* verifier log.  The logs are: the lines the kernel writes for a load,    *)
(* whole and cut short after any character; up to MaxStatements statements *)
(* of the kinds MergedPerInstruction acts on, in any order; one state line *)
(* for every register key and liveness suffix; one back-tracking line for  *)
(* every bitmap of HexStrings; a store to the stack whose state line has   *)
(* two slots, the deeper one with every liveness suffix; an instruction    *)
(* the verifier reaches twice with different states.                       *)
(***************************************************************************)
MaxStatements == 4

SeedLogs ==
  {<<"func#4 @114", "0: R1=ctx(id=0,off=0,imm=0) R10=fp0">>,
   <<"; if (x)",
     "6: (71) r3 = *(u8 *)(r1 +12); R1_w=pkt(id=0,off=0,r=14,imm=0) R3_w=invP(id=0,umax=255,var_off=(0x0; 0xff))">>,
   <<"22: (85) call pc+4", "caller:", " R6=invP2 R10=fp0", "callee:",
     " frame1: R1=pkt(id=0,off=0,r=18,imm=0) R10=fp0">>,
   <<"returning from callee:", " frame1: R0=inv1 R10=fp0 fp-8=mm??????",
     "to caller at 23:", " R0=inv1 R6=invP2 R10=fp0">>,
   <<"from 57 to 23: frame1: R0=invP(id=0) R10=fp0 fp-8=pkt_end", "23: (05) goto pc+1",
     "propagating r6", "25: safe">>,
   <<"last_idx 26 first_idx 20", "regs=100 stack=0 before 1: (b7) r8 = 0",
     "parent didn't have regs=8 stack=0 marks: R3_rw=invP16 R10=fp0 fp-8=???????m">>,
   <<"26: (95) exit",
     "processed 520 insns (limit 1000000) max_states_per_insn 1 total_states 46 peak_states 46 mark_read 7">>}

\* A log cut short: its first k - 1 lines and the first n characters of line k.
Truncated(l, k, n) == SubSeq(l, 1, k - 1) \o <<Slice(l[k], 0, n)>>
TruncatedLogs ==
  UNION {{Truncated(l, k, n) : n \in 1..Len(l[k])} : <<l, k>> \in
           UNION {{<<s, j>> : j \in 1..Len(s)} : s \in SeedLogs}}

\* The statements MergedPerInstruction acts on: up to MaxStatements of the
\* one-line ones in any order, and a return from a callee between two of them.
MergeChunks ==
  {<<"0: R1=ctx(id=0,off=0,imm=0) R10=fp0">>,
   <<"1: (b7) r6 = 1; R6_w=invP1 fp-8_w=mmmmmmmm">>,
   <<"0: (bf) r2 = r10">>,
   <<"from 0 to 1: R10=fp0">>}
ReturnChunk ==
  <<"returning from callee:", " frame1: R0=inv1 R10=fp0 fp-8=mm??????",
    "to caller at 1:", " R6=invP2 fp-16=00000000">>
RECURSIVE LogsOf(_)
LogsOf(n) ==
  IF n = 0 THEN {<<>>} ELSE {l \o c : l \in LogsOf(n - 1), c \in MergeChunks}
MergeLogs ==
  UNION {LogsOf(n) : n \in 1..MaxStatements}
    \cup {a \o ReturnChunk \o b : a \in MergeChunks, b \in MergeChunks}

\* A state line with one register, and a back-tracking line with a bitmap.
KeyRegisters == {0, 3, 10}
KeySuffixes == {"", "_r", "_w", "_rw", "_D"}
KeyLine(n, suffix) == "0: R" \o Itoa(n) \o suffix \o "=invP16"
HexStrings == {"8", "2a", "100", "0204", "abc"}
RegsLine(h) == "regs=" \o h \o " stack=0 before 1: (b7) r8 = 0"
MarksLine(h) == "parent already had regs=" \o h \o " stack=0 marks"

\* A store to fp-16 of a program that has written fp-8, and the instruction
\* after it; the slots the verifier reports in it.
SlotLog(suffix) ==
  <<"1: (7b) *(u64 *)(r10 -16) = r1; R1=ctx(id=0,off=0,imm=0) R10=fp0 fp-8=mmmmmmmm fp-16"
      \o suffix \o "=ctx",
    "2: (bf) r2 = r10">>
SlotsReported == {8, 16}

\* Instruction 1 reached on two paths, with R6 = 1 and with R6 = 2.
RepublishLog ==
  <<"0: R1=ctx(id=0,off=0,imm=0) R10=fp0",
    "0: (b7) r6 = 1; R6_w=invP1",
    "1: (bf) r2 = r10",
    "from 3 to 1: R6=invP2 R10=fp0",
    "1: (bf) r2 = r10">>

Logs ==
  SeedLogs \cup TruncatedLogs \cup MergeLogs
    \cup {<<KeyLine(n, s)>> : n \in KeyRegisters, s \in KeySuffixes}
    \cup {<<RegsLine(h)>> : h \in HexStrings} \cup {<<MarksLine(h)>> : h \in HexStrings}
    \cup {SlotLog(s) : s \in KeySuffixes} \cup {RepublishLog}

InitLog ==
  /\ log \in Logs
  /\ fn \in {"ParseVerifierLog", "MergedPerInstruction"}
  /\ scan = 0
  /\ statements = <<>>
  /\ curState = NoState
  /\ states = <<>>
  /\ parsed = Parsed(NoStatement, 0)
  /\ status = "running"
  /\ BlocksIdle
  /\ HandlerIdle
  /\ MachineIdle
  /\ CalcIdle

\* scan.Scan() hands out a line and parseStatement parses it, reading more
\* lines where the statement has more; a panic ends the call.
Scanned(p) ==
  /\ parsed' = p
  /\ scan' = scan + 1 + p.more
  /\ status' = IF IsPanic(p.stmt) THEN "panicked" ELSE "parsed"
ScanStatement ==
  /\ status = "running"
  /\ scan < Len(log)
  /\ Scanned(parseStatement(log, scan + 1))
  /\ UNCHANGED <<log, fn, statements, curState, states>>

\* ParseVerifierLog: the statement is appended when it is not the nil
\* interface.
AppendStatement ==
  /\ fn = "ParseVerifierLog"
  /\ status = "parsed"
  /\ statements' = IF parsed.stmt = NoStatement THEN statements
                   ELSE Append(statements, parsed.stmt)
  /\ status' = "running"
  /\ UNCHANGED <<log, fn, scan, curState, states, parsed>>

\* MergedPerInstruction: the switch on the type of the statement.
Merged == MergeStatement([curState |-> curState, states |-> states], parsed.stmt)
MergeParsed ==
  /\ fn = "MergedPerInstruction"
  /\ status = "parsed"
  /\ ~IsPanic(Merged)
  /\ curState' = Merged.curState
  /\ states' = Merged.states
  /\ status' = "running"
  /\ UNCHANGED <<log, fn, scan, statements, parsed>>

\* The statement is a nil pointer that the switch dereferences.
MergePanics ==
  /\ fn = "MergedPerInstruction"
  /\ status = "parsed"
  /\ IsPanic(Merged)
  /\ status' = "panicked"
  /\ UNCHANGED <<log, fn, scan, statements, curState, states, parsed>>

\* scan.Scan() fails: the function returns what it has.
ReturnParsed ==
  /\ status = "running"
  /\ scan = Len(log)
  /\ status' = "returned"
  /\ UNCHANGED <<log, fn, scan, statements, curState, states, parsed>>

NextLog ==
  \/ (ScanStatement /\ UNCHANGED <<blocksVars, handlerVars, machineVars, calc>>)
  \/ (AppendStatement /\ UNCHANGED <<blocksVars, handlerVars, machineVars, calc>>)
  \/ (MergeParsed /\ UNCHANGED <<blocksVars, handlerVars, machineVars, calc>>)
  \/ (MergePanics /\ UNCHANGED <<blocksVars, handlerVars, machineVars, calc>>)
  \/ (ReturnParsed /\ UNCHANGED <<blocksVars, handlerVars, machineVars, calc>>)

SpecLog == InitLog /\ [][NextLog]_vars

\* The register numbers and the stack offsets of a state.
RegKeys(st) == {st.Registers[i].Register : i \in 1..Len(st.Registers)}
SlotKeys(st) == {st.Stack[i].Offset : i \in 1..Len(st.Stack)}

\* C14: in every step of MergedPerInstruction the per-instruction array does
\* not get shorter and, at every index, the set of register numbers and the
\* set of stack offsets stored there only grow.
C14_MergerMonotone ==
  [][/\ Len(states') >= Len(states)
     /\ \A i \in 1..Len(states) :
          /\ RegKeys(states[i]) \subseteq RegKeys(states'[i])
          /\ SlotKeys(states[i]) \subseteq SlotKeys(states'[i])]_vars

\* A call that has returned after it applied, at an index that had registers
\* and a stack slot, a current state that a branch evaluation had replaced
\* by one without those keys.
C14_Witness ==
  /\ fn = "MergedPerInstruction"
  /\ status = "returned"
  /\ Len(log) >= 2
  /\ parseStatement(log, Len(log)).stmt.kind = "Instruction"
  /\ parseStatement(log, Len(log) - 1).stmt.kind = "BranchEvaluation"
  /\ curState = parseStatement(log, Len(log) - 1).stmt.State
  /\ LET at == parseStatement(log, Len(log)).stmt.InstructionNumber + 1
     IN /\ RegKeys(states[at]) \ RegKeys(curState) # {}
        /\ SlotKeys(states[at]) \ SlotKeys(curState) # {}
        /\ RegKeys(curState) \subseteq RegKeys(states[at])

\* C15: ParseVerifierLog and MergedPerInstruction never panic, and no
\* element of the statement list is a nil pointer.
C15_ParserNeverPanics ==
  /\ status # "panicked"
  /\ \A i \in 1..Len(statements) : statements[i].kind # "nil"

\* The lines k..m of the log as one text, and a text without its white space.
RECURSIVE JoinLines(_, _, _)
JoinLines(lines, k, m) ==
  IF k > m THEN "" ELSE IF k = m THEN lines[k]
  ELSE lines[k] \o "\n" \o JoinLines(lines, k + 1, m)
RECURSIVE StripSpace(_)
StripSpace(s) ==
  IF s = "" THEN ""
  ELSE (IF Slice(s, 0, 1) \in {" ", "\t", "\n"} THEN "" ELSE Slice(s, 0, 1))
         \o StripSpace(Drop(s, 1))

\* The lines the kernel writes, none of them cut short.
WholeLines ==
  UNION {{l[k] : k \in 1..Len(l)} : l \in SeedLogs \cup MergeChunks \cup {ReturnChunk}}

\* C16: when ParseVerifierLog turns lines the kernel writes into a statement,
\* String() of the statement is the text of those lines up to white space.
C16_RoundTrip ==
  [][(/\ fn = "ParseVerifierLog"
      /\ Len(statements') = Len(statements) + 1
      /\ statements'[Len(statements')].kind # "nil"
      /\ \A k \in (scan - parsed.more)..scan : log[k] \in WholeLines)
       => StripSpace(StatementString(statements'[Len(statements')]))
            = StripSpace(JoinLines(log, scan - parsed.more, scan))]_vars

\* a | b of two liveness values.
BitOr(a, b) ==
  (IF a % 2 = 1 \/ b % 2 = 1 THEN 1 ELSE 0)
    + 2 * (IF (a \div 2) % 2 = 1 \/ (b \div 2) % 2 = 1 THEN 1 ELSE 0)

\* The liveness a key suffix stands for.
SuffixLiveness(suffix) ==
  CASE suffix = "_r" -> LivenessRead
    [] suffix = "_w" -> LivenessWritten
    [] suffix = "_rw" -> BitOr(LivenessRead, LivenessWritten)
    [] suffix = "_D" -> LivenessDone
    [] OTHER -> LivenessNone

\* C17: the state line with the one register key R<n><suffix> parses to a
\* state whose one register has number n and the liveness of the suffix, a
\* value that is the liveness of no other suffix.
C17_RegisterKeyLiveness ==
  \A n \in KeyRegisters, suffix \in KeySuffixes :
    (fn = "ParseVerifierLog" /\ status = "returned" /\ log = <<KeyLine(n, suffix)>>) =>
      /\ Len(statements) = 1
      /\ statements[1].kind = "RecapState"
      /\ Len(statements[1].State.Registers) = 1
      /\ statements[1].State.Registers[1].Register = n
      /\ statements[1].State.Registers[1].Liveness = SuffixLiveness(suffix)
      /\ \A other \in KeySuffixes \ {suffix} :
           statements[1].State.Registers[1].Liveness # SuffixLiveness(other)

\* The bytes of the hexadecimal number h: the digits taken in pairs from the
\* right.
BytesOfHex(h) == DecodeString(IF Len(h) % 2 = 1 THEN "0" \o h ELSE h)

\* C18: the Regs field parsed from a back-tracking line, and from a trailer,
\* with regs=H is the byte string of the hexadecimal number H.
C18_RegsBytes ==
  \A h \in HexStrings :
    /\ (fn = "ParseVerifierLog" /\ status = "returned" /\ log = <<RegsLine(h)>>) =>
         /\ Len(statements) = 1
         /\ statements[1].kind = "BackTrackInstruction"
         /\ statements[1].Regs = BytesOfHex(h)
    /\ (fn = "ParseVerifierLog" /\ status = "returned" /\ log = <<MarksLine(h)>>) =>
         /\ Len(statements) = 1
         /\ statements[1].kind = "BackTrackingTrailer"
         /\ statements[1].Regs = BytesOfHex(h)

(***************************************************************************)
(* SpecOffsets: the 16-bit computations of the engine on a large program:  *)
(* the labelling of one jump (ProgramBlocks) at the ends of the range of   *)
(* the instruction offset, and the counter update of one block             *)
(* (InstrumentAndLoadCollection) at the ends of the range of the counter   *)
(* offset.  The program around the jump has single-slot instructions only  *)
(* and holds an instruction at the raw offset the jump goes to; the        *)
(* collection around the block has more blocks than the block's index.     *)
(***************************************************************************)
EdgeRawOffsets == {0, 1, 2, 32767, 32768, 40000}
EdgeJumpOffs == {-32768, -32767, -3, -2, 0, 1, 2, 32766, 32767}
EdgeBlockIDs == {0, 1, 2, 16383, 16384, 16385, 32767, 32768, 32769, 65535, 65536}
EdgeUsedRegs == {{R1, R10}, R0..R10, (R0..R10) \ {R9}}

JumpInputs ==
  {[kind |-> "jump", p |-> x[1], o |-> x[2].off, inst |-> x[2], done |-> FALSE,
    targetOff |-> 0] :
     x \in {y \in EdgeRawOffsets \X ({Ja(o) : o \in EdgeJumpOffs}
                                     \cup {JCond(o) : o \in EdgeJumpOffs}) :
              y[1] + y[2].off + 1 >= 0}}

CounterInputs ==
  {[kind |-> "counter", blockID |-> x[1], usedRegs |-> x[2], done |-> FALSE,
    update |-> <<>>, valueSize |-> 0] : x \in EdgeBlockIDs \X EdgeUsedRegs}

InitOffsets ==
  /\ calc \in JumpInputs \cup CounterInputs
  /\ BlocksIdle
  /\ HandlerIdle
  /\ MachineIdle
  /\ LogIdle

\* One pass of the labelling loop on a jump other than Call and Exit.
LabelJump ==
  /\ calc.kind = "jump"
  /\ ~calc.done
  /\ calc' = [calc EXCEPT !.done = TRUE,
                          !.targetOff = JumpTarget(calc.p, calc.inst.off),
                          !.inst = Relabel(@, JumpLabel(JumpTarget(calc.p, calc.inst.off)))]
  /\ UNCHANGED <<blocksVars, handlerVars, machineVars, logVars>>

\* The counter update of the block with index blockID, and the coverage map
\* of a collection whose last block it is.
EmitCounterUpdate ==
  /\ calc.kind = "counter"
  /\ ~calc.done
  /\ calc' = [calc EXCEPT !.done = TRUE,
                          !.update = CounterUpdate(calc.usedRegs, calc.blockID, 0),
                          !.valueSize = CoverMapSpec(calc.blockID + 1).ValueSize]
  /\ UNCHANGED <<blocksVars, handlerVars, machineVars, logVars>>

NextOffsets == LabelJump \/ EmitCounterUpdate

SpecOffsets == InitOffsets /\ [][NextOffsets]_vars

\* C23: the jump at raw offset p with instruction offset o is rewritten to
\* offset -1 and to the reference j-<p+o+1>, the label of the instruction at
\* raw offset p+o+1, forward or backward, for every 16-bit offset o.
C23_JumpLabelling ==
  (calc.kind = "jump" /\ calc.done) =>
    /\ calc.targetOff = calc.p + calc.o + 1
    /\ calc.inst.ref = JumpLabel(calc.p + calc.o + 1)
    /\ calc.inst.off = -1

\* The offsets of the counter load and of the counter store of an update.
CounterAccessOffs(update) ==
  {update[j].off : j \in {i \in 1..Len(update) : update[i].op \in {"ldx_h", "stx_h"}}}

\* C28: for every block index i the coverage map holds a counter for, the
\* offset of the counter load and of the counter store is 2*i: it is not
\* negative, it lies in the map's value, and it is the offset of no other
\* block's counter.
C28_CounterOffsetNoWrap ==
  (calc.kind = "counter" /\ calc.done /\ 2 * calc.blockID + 2 <= calc.valueSize) =>
    /\ CounterAccessOffs(calc.update) = {2 * calc.blockID}
    /\ \A off \in CounterAccessOffs(calc.update) : off >= 0 /\ off + 2 <= calc.valueSize
    /\ \A b \in EdgeBlockIDs :
         (b # calc.blockID /\ 2 * b + 2 <= calc.valueSize) =>
           CounterOff(b) \notin CounterAccessOffs(calc.update)

(***************************************************************************)
(* The merged states as InstrumentAndLoadCollection reads them.            *)
(***************************************************************************)
\* What the engine reads of MergedPerInstruction's result: per instruction
\* the register numbers (usedRegs) and the stack offsets (progMaxFPOff).
EngineView(mergedStates) ==
  [i \in 1..Len(mergedStates) |->
     [Registers |-> RegKeys(mergedStates[i]), Stack |-> SlotKeys(mergedStates[i])]]

\* C24: the reserved slot offsets are M+8, M+16 and M+24, M being the largest
\* stack offset of the merged states (0 without one); they are pairwise
\* distinct and deeper than every stack slot the verifier reported on the
\* program, so that no inserted store writes a slot of the program.
C24_ReservedSlots ==
  \A sfx \in KeySuffixes :
    (fn = "MergedPerInstruction" /\ status = "returned" /\ log = SlotLog(sfx)) =>
      LET progMaxFPOff == ProgMaxFPOff(EngineView(states))
          reserved == {CoverMapFPOff(progMaxFPOff), RegSave1FPOff(progMaxFPOff),
                       RegSave2FPOff(progMaxFPOff)}
      IN /\ \A i \in 1..Len(states) : \A off \in SlotKeys(states[i]) : off <= progMaxFPOff
         /\ reserved = {progMaxFPOff + 8, progMaxFPOff + 16, progMaxFPOff + 24}
         /\ Cardinality(reserved) = 3
         /\ \A r \in reserved : \A off \in SlotsReported : r > off

\* The index a statement publishes the current state at, Nil for a statement
\* that publishes nothing.
PublishedAt(stmt) ==
  CASE stmt.kind = "Instruction" -> stmt.InstructionNumber
    [] stmt.kind = "InstructionState" -> stmt.Instruction.InstructionNumber
    [] OTHER -> Nil

\* The entry of a state for a register number, for a stack offset.
RegEntry(st, n) == st.Registers[CHOOSE i \in 1..Len(st.Registers) : st.Registers[i].Register = n]
SlotEntry(st, off) == st.Stack[CHOOSE i \in 1..Len(st.Stack) : st.Stack[i].Offset = off]

\* C26: when the merger publishes the current state at an index that holds
\* an entry for a register number or a stack offset of the current state,
\* the entry of the current state replaces the stored one, and the entries
\* of the index for all other keys are kept.
C26_LaterSnapshotWins ==
  [][(/\ fn = "MergedPerInstruction"
      /\ status = "parsed"
      /\ status' = "running"
      /\ PublishedAt(parsed.stmt) # Nil
      /\ PublishedAt(parsed.stmt) < Len(states)) =>
       LET at == PublishedAt(parsed.stmt) + 1
       IN /\ \A n \in RegKeys(states[at]) :
               RegEntry(states'[at], n) =
                 IF n \in RegKeys(curState) THEN RegEntry(curState, n)
                 ELSE RegEntry(states[at], n)
          /\ \A off \in SlotKeys(states[at]) :
               SlotEntry(states'[at], off) =
                 IF off \in SlotKeys(curState) THEN SlotEntry(curState, off)
                 ELSE SlotEntry(states[at], off)]_vars

\* The keys of the state stored at index i (from 0), none when the array has
\* no such index.
RegKeysAt(sts, i) == IF i < Len(sts) THEN RegKeys(sts[i + 1]) ELSE {}
SlotKeysAt(sts, i) == IF i < Len(sts) THEN SlotKeys(sts[i + 1]) ELSE {}

\* C27: a step on an InstructionState for index i publishes the current
\* state as it was before the step at i and then merges the statement's
\* state into it: a key the statement brings is in the current state after
\* the step and is at index i only if it was there before; a step on an
\* Instruction publishes the current state at its index and leaves it
\* unchanged; a step on a RecapState merges the statement's state into the
\* current state and leaves the array unchanged.
C27_PublishThenMerge ==
  [][(fn = "MergedPerInstruction" /\ status = "parsed" /\ status' = "running") =>
       /\ parsed.stmt.kind = "InstructionState" =>
            LET i == parsed.stmt.Instruction.InstructionNumber
                new == parsed.stmt.State
            IN /\ RegKeys(curState) \subseteq RegKeysAt(states', i)
               /\ SlotKeys(curState) \subseteq SlotKeysAt(states', i)
               /\ RegKeys(new) \subseteq RegKeys(curState')
               /\ SlotKeys(new) \subseteq SlotKeys(curState')
               /\ \A n \in RegKeys(new) \ RegKeys(curState) :
                    /\ RegEntry(curState', n) = RegEntry(new, n)
                    /\ n \in RegKeysAt(states', i) <=> n \in RegKeysAt(states, i)
               /\ \A off \in SlotKeys(new) \ SlotKeys(curState) :
                    /\ SlotEntry(curState', off) = SlotEntry(new, off)
                    /\ off \in SlotKeysAt(states', i) <=> off \in SlotKeysAt(states, i)
       /\ parsed.stmt.kind = "Instruction" =>
            /\ curState' = curState
            /\ RegKeys(curState) \subseteq RegKeysAt(states', parsed.stmt.InstructionNumber)
            /\ SlotKeys(curState) \subseteq SlotKeysAt(states', parsed.stmt.InstructionNumber)
       /\ parsed.stmt.kind = "RecapState" =>
            /\ states' = states
            /\ RegKeys(parsed.stmt.State) \subseteq RegKeys(curState')
            /\ SlotKeys(parsed.stmt.State) \subseteq SlotKeys(curState')]_vars

\* A call that has returned from a log of two statements: an InstructionState
\* for index 1 that brings R6 and fp-8, then an Instruction at index 0.  The
\* two keys are at index 0 and not at index 1.
C27_Witness ==
  /\ fn = "MergedPerInstruction"
  /\ status = "returned"
  /\ log = <<"1: (b7) r6 = 1; R6_w=invP1 fp-8_w=mmmmmmmm", "0: (bf) r2 = r10">>
  /\ Len(states) = 2
  /\ 6 \in RegKeys(states[1]) /\ 8 \in SlotKeys(states[1])
  /\ 6 \notin RegKeys(states[2]) /\ 8 \notin SlotKeys(states[2])
====
